---- MODULE Spec2Model ----
(***************************************************************************)
(* A model of the iji-rs game-object runtime (src/src/state/*.rs), its     *)
(* host functions (src/src/scripts.rs) and the script evaluator            *)
(* (src/gml/src/eval.rs).                                                  *)
(*                                                                         *)
(* The runtime is single threaded.  Its control state is a stack of        *)
(* activations (Room::dispatch loops, Room::cleanup loops, running event   *)
(* handlers ...); exactly one continuation is enabled at a time, except    *)
(* where a running handler chooses which host function its script calls    *)
(* next and where the driver chooses its inputs.                           *)
(***************************************************************************)
EXTENDS Integers, Sequences, FiniteSets, TLC

(***************************************************************************)
(* Bounds of the model.                                                    *)
(***************************************************************************)
\* frames the driver runs
MaxFrames == 2
\* live + added instances of the room
MaxInst == 3
\* host-function calls the scripts make in one run of the program
MaxCalls == 2
\* largest alarm countdown a script sets
MaxAlarm == 2

(***************************************************************************)
(* The project (gmk_file::Content) the runtime is loaded with.             *)
(***************************************************************************)
ObjectTypes == {0, 1}
NoParent == -1
\* obj.parent_object_index
ParentIndex(oi) == IF oi = 1 THEN 0 ELSE NoParent
\* the events each object definition contains
ObjEvents(oi) ==
    IF oi = 0
    THEN {"Create", "Destroy", "StepNormal", "StepEnd", "Alarm0", "KeyPress"}
    ELSE {"StepBegin", "StepNormal", "Draw"}
\* obj.depth, obj.visible
ObjDepth(oi) == IF oi = 0 THEN 0 ELSE -1
ObjVisible(oi) == TRUE
Rooms == {0, 1}
\* content.room_order.items (0-based in the code, 1-based here)
RoomOrder == <<0, 1>>
\* def.instances of each room: pre-assigned id and object_index
Placements(r) ==
    IF r = 0 THEN << [id |-> 3, oi |-> 0], [id |-> 4, oi |-> 1] >>
    ELSE << [id |-> 2, oi |-> 0] >>
\* content.last_instance_id: the largest pre-assigned placement id
ContentLastInstanceId == 4
AlarmIndexes == {0}
AlarmEvent(i) == "Alarm0"
NoRoom == -1

VARIABLES
    \* Global
    room_order_index,     \* Global.room_order_index
    next_room_index,      \* Global.next_room_index (NoRoom = None)
    last_instance_id,     \* Global.last_instance_id (the allocator's counter)
    type_instances,       \* object_types[oi].object.instances: set of ids
    \* Room
    room_def,             \* the room definition Room::load copied (NoRoom: Room::new())
    elapsed,              \* Room.elapsed, in halves of a sub-tick
    object_instances,     \* Room.object_instances.values: keys in iteration order
    added_instances,      \* Room.added_instances: set of keys
    destroyed_instances,  \* Room.destroyed_instances: Vec of ids
    script_instances,     \* Room.script_instances: set of keys
    instances,            \* the Instance bodies (Rc<Instance>) by id
    \* control
    phase,                \* the driver's next call
    stack,                \* activations, innermost last
    panicked,             \* the process aborted (a Rust panic)
    \* history
    log,                  \* handler runs and host calls of the current driver call
    last_goto,            \* target of the latest room_goto/room_goto_next call
    hist_alarm,           \* per instance and alarm: countdown last set, steps since, dispatches
    hist_created,         \* ids instance_create made in the current room
    hist_removed,         \* ids Room::cleanup removed from the current room
    calls,                \* host-function calls made so far
    frames,               \* frames the driver has started
    \* the script evaluator (gml::eval::Context)
    ctx_locals,           \* Context.locals: name -> value
    ctx_stack,            \* the exec_script activations: each one's old_locals
    hist_call,            \* the last script-to-script call that finished
    \* the evaluator's objects (gml::eval::Global / Object implementations)
    consts,               \* Global.consts: name -> Value
    global_vars,          \* Global.vars: name -> Value
    scripts,              \* Global.scripts: names (name -> index) and values (index -> script)
    inst_state,           \* Instance.state fields scripts read and write, by instance id
    inst_vars,            \* Instance.vars: the free-form variable map, by instance id
    script_objects,       \* Room.script_instances values: alarm tables, namespaces, arrays
    ctx_instance,         \* Context.instance_id, under it the old_instance_id of each with
    \* project load and one event's actions
    content,              \* gmk_file::Content: script resources and one event definition
    event_actions,        \* the Vec<Action> define_objects built for that event
    pc,                   \* position of Global::new / Instance::dispatch
    stderr,               \* the errors Instance::dispatch printed
    last_op,              \* the last operation: what ran, its operands, its result
    \* the project file decoder (gmk_file::parse)
    data,                 \* the bytes read from the file, by position (from 0)
    cipher,               \* the bytes as they were read (data before the decoding loop)
    header,               \* parse_offset::<FileHeader>: the crypt seed and `start`
    encode_table,         \* generate_decode_table's encode_table
    decode_table,         \* the table generate_decode_table returns
    input,                \* the decoded words a resource body parser has yet to read
    parsed,               \* that parser's position and what it has built
    \* the text renderer (FontAsset::draw_text)
    chars,                \* the (is_space, index) pairs of the string's characters
    wrap_chars,           \* the characters that fit the wrap width
    lines,                \* the line end positions pushed so far
    line_index,           \* the position the line-breaking loop is at
    text_at               \* where draw_text is: in the loop, in the inner while, past it

vars == << room_order_index, next_room_index, last_instance_id, type_instances,
           room_def, elapsed, object_instances, added_instances,
           destroyed_instances, script_instances, instances,
           phase, stack, panicked, log, last_goto, hist_alarm, hist_created, hist_removed,
           calls, frames, ctx_locals, ctx_stack, hist_call,
           consts, global_vars, scripts, inst_state, inst_vars, script_objects, ctx_instance,
           content, event_actions, pc, stderr, last_op,
           data, cipher, header, encode_table, decode_table, input, parsed,
           chars, wrap_chars, lines, line_index, text_at >>

globalVars == << room_order_index, next_room_index, last_instance_id, type_instances >>
roomVars == << room_def, elapsed, object_instances, added_instances,
               destroyed_instances, script_instances, instances >>
lifeVars == << hist_created, hist_removed >>
histVars == << log, last_goto, hist_alarm, hist_created, hist_removed >>
budgetVars == << calls, frames >>
scriptVars == << ctx_locals, ctx_stack, hist_call >>
worldVars == << globalVars, roomVars, phase, stack, panicked, histVars, budgetVars >>
objectVars == << consts, global_vars, scripts, inst_state, inst_vars, script_objects, ctx_instance >>
loadVars == << content, event_actions, pc, stderr >>
fileVars == << data, cipher, header, encode_table, decode_table >>
parseVars == << input, parsed >>
gmkVars == << fileVars, parseVars >>
textVars == << chars, wrap_chars, lines, line_index, text_at >>
evalVars == << objectVars, loadVars, last_op, gmkVars, textVars >>

(***************************************************************************)
(* Helpers.                                                                *)
(***************************************************************************)
Range(s) == { s[i] : i \in 1..Len(s) }
\* every order a HashMap may iterate the key set S in
Perms(S) == { p \in [1..Cardinality(S) -> S] : \A i, j \in 1..Cardinality(S) : p[i] = p[j] => i = j }
\* s without its occurrences of x (HashMap::remove keeps the others' order)
Without(s, x) == SelectSeq(s, LAMBDA y : y # x)
Top == stack[Len(stack)]
Pop == SubSeq(stack, 1, Len(stack) - 1)
Frame(op, ev, id, todo, via) == [op |-> op, ev |-> ev, id |-> id, todo |-> todo, via |-> via, n |-> 0]
Running == ~panicked /\ stack # << >>
FrameIs(op) == Running /\ Top.op = op

\* the bottom activation tells which borrow of Global.room the driver call holds
RoomBorrow ==
    IF stack = << >> THEN "free"
    ELSE IF stack[1].op = "cleanup" /\ stack[1].via = "global" THEN "mut"
    ELSE "shared"
\* Room.destroyed_instances is mutably borrowed while Room::cleanup drains it
DestroyedBorrowed == \E i \in 1..Len(stack) : stack[i].op = "cleanup"
\* Room.object_instances is mutably borrowed for the body of cleanup's `if let`
ObjectInstancesMutBorrowed == \E i \in 1..Len(stack) : stack[i].op = "destroying"

\* a walk that asks the parent before the object itself
HandlerObjectParentFirst(oi, ev) ==
    IF ParentIndex(oi) # NoParent /\ ev \in ObjEvents(ParentIndex(oi)) THEN ParentIndex(oi)
    ELSE IF ev \in ObjEvents(oi) THEN oi
    ELSE NoParent

\* Instance::dispatch's parent-chain walk: the object whose event table has ev
RECURSIVE HandlerObject(_, _)
HandlerObject(oi, ev) ==
    IF ev \in ObjEvents(oi) THEN oi
    ELSE IF ParentIndex(oi) # NoParent THEN HandlerObject(ParentIndex(oi), ev)
    ELSE NoParent

\* Instance::dispatch(ev) on instance id of object oi, called from `via`, with
\* stack stk and log lg: the handler's activation is pushed and its run
\* logged (arg: the object whose action list runs) when the chain has ev
DispatchTo(stk, lg, id, oi, ev, via) ==
    IF HandlerObject(oi, ev) # NoParent
    THEN /\ stack' = Append(stk, Frame("handler", ev, id, << >>, via))
         /\ log' = Append(lg, [k |-> "run", ev |-> ev, id |-> id, arg |-> HandlerObject(oi, ev), via |-> via])
    ELSE /\ stack' = stk
         /\ log' = lg

\* Global::instance_create: the Instance it builds (alarm: index -> steps)
NewBody(oi) == [object_index |-> oi, alarm |-> << >>, depth |-> ObjDepth(oi), visible |-> ObjVisible(oi)]
NewHist == [i \in AlarmIndexes |-> [n |-> 0, age |-> 0, fired |-> 0]]

\* no project file is being read
NoFile ==
    /\ data = << >>
    /\ cipher = << >>
    /\ header = [at |-> "none"]
    /\ encode_table = << >>
    /\ decode_table = << >>
    /\ input = << >>
    /\ parsed = [at |-> "none"]

\* no text is being drawn
NoText ==
    /\ chars = << >>
    /\ wrap_chars = 0
    /\ lines = << >>
    /\ line_index = 0
    /\ text_at = "none"

\* the program's state before the driver's first call
Unstarted ==
    /\ room_order_index = 0
    /\ next_room_index = NoRoom
    /\ last_instance_id = ContentLastInstanceId
    /\ type_instances = [oi \in ObjectTypes |-> {}]
    /\ room_def = NoRoom
    /\ elapsed = 0
    /\ object_instances = << >>
    /\ added_instances = {}
    /\ destroyed_instances = << >>
    /\ script_instances = {}
    /\ instances = << >>
    /\ phase = "boot"
    /\ stack = << >>
    /\ panicked = FALSE
    /\ log = << >>
    /\ last_goto = NoRoom
    /\ hist_alarm = << >>
    /\ hist_created = {}
    /\ hist_removed = {}
    /\ calls = 0
    /\ frames = 0
    /\ ctx_locals = << >>
    /\ ctx_stack = << >>
    /\ hist_call = [how |-> "none", before |-> << >>, after |-> << >>]
    /\ consts = << >>
    /\ global_vars = << >>
    /\ scripts = [names |-> << >>, values |-> << >>]
    /\ inst_state = << >>
    /\ inst_vars = << >>
    /\ script_objects = << >>
    /\ ctx_instance = << >>
    /\ content = [scripts |-> << >>, actions |-> << >>]
    /\ event_actions = << >>
    /\ pc = "new"
    /\ stderr = << >>
    /\ last_op = [fn |-> "none"]

Init == Unstarted /\ NoFile /\ NoText

(***************************************************************************)
(* Global::goto_room and Room::dispatch / Room::cleanup.                   *)
(***************************************************************************)
\* Global::next_instance_id: fetch_add returns the counter's previous value;
\* IdAt(k) is the id handed out by the k-th call from now (k = 1, 2, ...)
IdAt(k) == last_instance_id + k - 1

DispatchFrame(ev, todo, via) == [Frame("dispatch", ev, 0, todo, via) EXCEPT !.n = Len(log')]

\* a goto_room that replaces the room even while a driver call borrows it
RoomTakenAtOnce == TRUE

\* RefCell::try_borrow_mut on Global.room succeeds only when nothing borrows it
RoomTryBorrowMut == RoomBorrow = "free"

\* a goto_room whose placements wait in added_instances like script-made ones
LoadRoomDeferred(index) ==
    LET pl == Placements(index)
        n == Len(pl)
        ids == { pl[k].id : k \in 1..n }
    IN  /\ room_def' = index
        /\ elapsed' = 0
        /\ added_instances' = ids
        /\ destroyed_instances' = << >>
        /\ script_instances' = { IdAt(k) : k \in 1..(n + 1) }
        /\ last_instance_id' = last_instance_id + n + 1
        /\ type_instances' =
             [oi \in ObjectTypes |-> type_instances[oi] \cup { pl[k].id : k \in { j \in 1..n : pl[j].oi = oi } }]
        /\ instances' =
             [id \in DOMAIN instances \cup ids |->
                IF id \in ids
                THEN NewBody(pl[CHOOSE k \in 1..n : pl[k].id = id].oi) ELSE instances[id]]
        /\ hist_alarm' =
             [id \in DOMAIN instances \cup ids |->
                IF id \in ids THEN NewHist ELSE hist_alarm[id]]
        /\ hist_created' = {}
        /\ hist_removed' = {}
        /\ object_instances' = << >>
        /\ stack' = Append(stack, DispatchFrame("Create", << >>, "goto"))

\* goto_room past the try_borrow_mut: Room::new(), Room::load, instance_create
\* of every placement, the added map taken as the live map, the `face`
\* dummy, then dispatch(Create)
LoadRoom(index) ==
    LET pl == Placements(index)
        n == Len(pl)
        ids == { pl[k].id : k \in 1..n }
    IN  /\ room_def' = index
        /\ elapsed' = 0
        /\ added_instances' = {}
        /\ destroyed_instances' = << >>
        /\ script_instances' = { IdAt(k) : k \in 1..(n + 1) }
        /\ last_instance_id' = last_instance_id + n + 1
        /\ type_instances' =
             [oi \in ObjectTypes |-> type_instances[oi] \cup { pl[k].id : k \in { j \in 1..n : pl[j].oi = oi } }]
        /\ instances' =
             [id \in DOMAIN instances \cup ids |->
                IF id \in ids
                THEN NewBody(pl[CHOOSE k \in 1..n : pl[k].id = id].oi) ELSE instances[id]]
        /\ hist_alarm' =
             [id \in DOMAIN instances \cup ids |->
                IF id \in ids THEN NewHist ELSE hist_alarm[id]]
        /\ hist_created' = {}
        /\ hist_removed' = {}
        /\ \E p \in Perms(ids) :
             /\ object_instances' = p
             /\ stack' = Append(stack, DispatchFrame("Create", p, "goto"))

\* Global::goto_room
GotoRoom(index) ==
    IF RoomTryBorrowMut
    THEN LoadRoom(index) /\ UNCHANGED next_room_index
    ELSE /\ next_room_index' = index
         /\ UNCHANGED << roomVars, last_instance_id, type_instances, stack, hist_alarm, lifeVars >>

\* the driver loads the first room of the room order: goto_room_order(0)
Boot ==
    /\ UNCHANGED << budgetVars, scriptVars, evalVars >>
    /\ phase = "boot" /\ ~panicked /\ stack = << >>
    /\ phase' = "input"
    /\ log' = << >>
    /\ LoadRoom(RoomOrder[1])
    /\ UNCHANGED << room_order_index, next_room_index, panicked, last_goto >>

\* Room::cleanup starts draining destroyed_instances
CleanupBegin(stk, via) ==
    /\ stack' = Append(stk, Frame("cleanup", "Destroy", 0, destroyed_instances, via))
    /\ destroyed_instances' = << >>

\* Room::dispatch, one turn of its loop over object_instances
DispatchNext ==
    /\ UNCHANGED << budgetVars, scriptVars, evalVars >>
    /\ FrameIs("dispatch") /\ Top.todo # << >>
    /\ DispatchTo([stack EXCEPT ![Len(stack)].todo = Tail(@)], log, Head(Top.todo),
                  instances[Head(Top.todo)].object_index, Top.ev, "dispatch")
    /\ UNCHANGED << globalVars, roomVars, phase, panicked, last_goto, hist_alarm, lifeVars >>

\* a Room::dispatch that leaves the cleanup to the end of the frame
DispatchEndNoCleanup ==
    /\ FrameIs("dispatch") /\ Top.todo = << >>
    /\ stack' = Pop
    /\ UNCHANGED << globalVars, roomVars, phase, panicked, histVars, budgetVars, scriptVars, evalVars >>

\* Room::dispatch after its loop: self.cleanup(global)
DispatchEnd ==
    /\ UNCHANGED << budgetVars, scriptVars, evalVars >>
    /\ FrameIs("dispatch") /\ Top.todo = << >>
    /\ CleanupBegin(Pop, "dispatch")
    /\ UNCHANGED << globalVars, room_def, elapsed, object_instances, added_instances,
                    script_instances, instances, phase, panicked, histVars >>

\* a cleanup that dispatches Destroy to a drained id and leaves it in the map
CleanupNextKeepsInstance ==
    /\ UNCHANGED << budgetVars, scriptVars, evalVars >>
    /\ FrameIs("cleanup") /\ Top.todo # << >>
    /\ LET id == Head(Top.todo)
           stk == [stack EXCEPT ![Len(stack)].todo = Tail(@)]
       IN  IF id \in Range(object_instances)
           THEN /\ hist_removed' = hist_removed \cup {id}
                /\ DispatchTo(stk, log, id, instances[id].object_index, "Destroy", "cleanup")
           ELSE /\ stack' = stk
                /\ UNCHANGED << log, hist_removed >>
    /\ UNCHANGED << globalVars, roomVars, phase, panicked, last_goto, hist_alarm, hist_created >>

\* Room::cleanup, one drained id: removed from the live map, then Destroy
CleanupNext ==
    /\ UNCHANGED << budgetVars, scriptVars, evalVars >>
    /\ FrameIs("cleanup") /\ Top.todo # << >>
    /\ LET id == Head(Top.todo)
           stk == [stack EXCEPT ![Len(stack)].todo = Tail(@)]
       IN  IF id \in Range(object_instances)
           THEN /\ object_instances' = Without(object_instances, id)
                /\ hist_removed' = hist_removed \cup {id}
                /\ DispatchTo(Append(stk, Frame("destroying", "Destroy", id, << >>, Top.via)),
                              log, id, instances[id].object_index, "Destroy", "cleanup")
           ELSE /\ stack' = stk
                /\ UNCHANGED << object_instances, log, hist_removed >>
    /\ UNCHANGED << globalVars, room_def, elapsed, added_instances, destroyed_instances,
                    script_instances, instances, phase, panicked, last_goto, hist_alarm,
                    hist_created >>

\* Room::cleanup after the Destroy handler: removed from the object type's set
CleanupRemoveType ==
    /\ UNCHANGED << budgetVars, scriptVars, evalVars >>
    /\ FrameIs("destroying")
    /\ LET id == Top.id
       IN  /\ type_instances' = [type_instances EXCEPT ![instances[id].object_index] = @ \ {id}]
           /\ instances' = [i \in DOMAIN instances \ {id} |-> instances[i]]
           /\ hist_alarm' = [i \in DOMAIN hist_alarm \ {id} |-> hist_alarm[i]]
    /\ stack' = Pop
    /\ UNCHANGED << room_order_index, next_room_index, last_instance_id, room_def, elapsed,
                    object_instances, added_instances, destroyed_instances, script_instances,
                    phase, panicked, log, last_goto, lifeVars >>

\* the iteration orders of a HashMap after it is extended by the keys in add
Extended(s, add) ==
    { p \in Perms(Range(s) \cup add) : SelectSeq(p, LAMBDA x : x \in Range(s)) = s }

\* Room::cleanup after the drain: added_instances drained into the live map
CleanupEnd ==
    /\ UNCHANGED << budgetVars, scriptVars, evalVars >>
    /\ FrameIs("cleanup") /\ Top.todo = << >>
    /\ \E p \in Extended(object_instances, added_instances) : object_instances' = p
    /\ added_instances' = {}
    /\ stack' = Pop
    /\ UNCHANGED << globalVars, room_def, elapsed, destroyed_instances, script_instances,
                    instances, phase, panicked, histVars >>

\* Instance::dispatch returns: the event's actions are done
HandlerReturn ==
    /\ UNCHANGED << budgetVars, scriptVars, evalVars >>
    /\ FrameIs("handler")
    /\ stack' = Pop
    /\ UNCHANGED << globalVars, roomVars, phase, panicked, histVars >>


(***************************************************************************)
(* Room::step, Instance::step and Room::draw.                              *)
(***************************************************************************)
\* Room::step's `while *elapsed >= 1.0`: a sub-tick starts with StepBegin
StepWhile ==
    /\ UNCHANGED << budgetVars, scriptVars, evalVars >>
    /\ FrameIs("step") /\ Top.ev = "while"
    /\ IF elapsed >= 2
       THEN /\ elapsed' = elapsed - 2
            /\ log' = << >>
            /\ stack' = Append([stack EXCEPT ![Len(stack)].ev = "insts"],
                               DispatchFrame("StepBegin", object_instances, "step"))
       ELSE /\ stack' = Pop
            /\ UNCHANGED << elapsed, log >>
    /\ UNCHANGED << globalVars, room_def, object_instances, added_instances, destroyed_instances,
                    script_instances, instances, phase, panicked, last_goto, hist_alarm,
                    lifeVars >>

\* a sub-tick that dispatches StepNormal before the per-instance steps
StepStageStepsLate ==
    /\ UNCHANGED << budgetVars, scriptVars, evalVars >>
    /\ FrameIs("step") /\ Top.ev # "while"
    /\ log' = log
    /\ stack' =
         IF Top.ev = "insts"
         THEN Append([stack EXCEPT ![Len(stack)].ev = "normal"],
                     DispatchFrame("StepNormal", object_instances, "step"))
         ELSE IF Top.ev = "normal"
         THEN Append([stack EXCEPT ![Len(stack)].ev = "end"],
                     Frame("steploop", "", 0, object_instances, "step"))
         ELSE Append([stack EXCEPT ![Len(stack)].ev = "while"],
                     DispatchFrame("StepEnd", object_instances, "step"))
    /\ UNCHANGED << globalVars, roomVars, phase, panicked, last_goto, hist_alarm, lifeVars >>

\* the rest of a sub-tick: the per-instance steps, StepNormal, StepEnd
StepStage ==
    /\ UNCHANGED << budgetVars, scriptVars, evalVars >>
    /\ FrameIs("step") /\ Top.ev # "while"
    /\ log' = log
    /\ stack' =
         IF Top.ev = "insts"
         THEN Append([stack EXCEPT ![Len(stack)].ev = "normal"],
                     Frame("steploop", "", 0, object_instances, "step"))
         ELSE IF Top.ev = "normal"
         THEN Append([stack EXCEPT ![Len(stack)].ev = "end"],
                     DispatchFrame("StepNormal", object_instances, "step"))
         ELSE Append([stack EXCEPT ![Len(stack)].ev = "while"],
                     DispatchFrame("StepEnd", object_instances, "step"))
    /\ UNCHANGED << globalVars, roomVars, phase, panicked, last_goto, hist_alarm, lifeVars >>

\* the retain closure of Instance::step: every countdown decremented
Decremented(alarm) == [i \in DOMAIN alarm |-> alarm[i] - 1]
\* a retain closure that keeps an entry one step too long
RetainedLate(alarm) == { i \in DOMAIN alarm : alarm[i] >= 0 }

\* the retain closure's verdict: an entry stays while its steps are > 0
Retained(alarm) == { i \in DOMAIN alarm : alarm[i] > 0 }

\* Instance::step of the next instance of Room::step's loop (image_index and
\* pos advance too; the log keeps the call)
InstanceStep ==
    /\ UNCHANGED << budgetVars, scriptVars, evalVars >>
    /\ FrameIs("steploop") /\ Top.todo # << >>
    /\ LET id == Head(Top.todo)
           dec == Decremented(instances[id].alarm)
           keep == Retained(dec)
           fired == DOMAIN dec \ keep
           h == hist_alarm[id]
       IN  /\ instances' = [instances EXCEPT ![id].alarm = [i \in keep |-> dec[i]]]
           /\ hist_alarm' = [hist_alarm EXCEPT ![id] =
                [i \in AlarmIndexes |->
                   IF h[i].age < h[i].n THEN [h[i] EXCEPT !.age = @ + 1] ELSE h[i]]]
           /\ log' = Append(log, [k |-> "step", ev |-> "", id |-> id, arg |-> 0, via |-> "step"])
           /\ \E order \in Perms(fired) :
                stack' = Append([stack EXCEPT ![Len(stack)].todo = Tail(@)],
                                Frame("alarms", "", id, order, "step"))
    /\ UNCHANGED << globalVars, room_def, elapsed, object_instances, added_instances,
                    destroyed_instances, script_instances, phase, panicked, last_goto,
                    lifeVars >>

\* Instance::step's `for alarm_id in alarm_ids`: dispatch(Alarm(alarm_id))
AlarmNext ==
    /\ UNCHANGED << budgetVars, scriptVars, evalVars >>
    /\ FrameIs("alarms")
    /\ IF Top.todo = << >>
       THEN stack' = Pop /\ UNCHANGED << log, hist_alarm >>
       ELSE /\ DispatchTo([stack EXCEPT ![Len(stack)].todo = Tail(@)], log, Top.id,
                          instances[Top.id].object_index, AlarmEvent(Head(Top.todo)), "alarm")
            /\ hist_alarm' = [hist_alarm EXCEPT ![Top.id][Head(Top.todo)].fired = @ + 1]
    /\ UNCHANGED << globalVars, roomVars, phase, panicked, last_goto, lifeVars >>

\* Room::step's loop over the instances is over
StepLoopEnd ==
    /\ UNCHANGED << budgetVars, scriptVars, evalVars >>
    /\ FrameIs("steploop") /\ Top.todo = << >>
    /\ stack' = Pop
    /\ UNCHANGED << globalVars, roomVars, phase, panicked, histVars >>

\* the depth range Room::draw keeps
DrawDepthLimit == 16000

\* the key of Room::draw's sort_by_key for an instance
DrawKey(id) == -instances[id].depth

\* sort_by_key (stable): x goes after every element whose key is <= its key
RECURSIVE InsertByKey(_, _)
InsertByKey(s, x) ==
    IF s = << >> THEN << x >>
    ELSE IF DrawKey(Head(s)) <= DrawKey(x) THEN << Head(s) >> \o InsertByKey(Tail(s), x)
    ELSE << x >> \o s
RECURSIVE SortByKey(_)
SortByKey(s) ==
    IF s = << >> THEN << >>
    ELSE InsertByKey(SortByKey(SubSeq(s, 1, Len(s) - 1)), s[Len(s)])

\* Room::draw's depth_draws: the visible instances with a depth in range, by
\* descending depth
DepthDraws ==
    SortByKey(SelectSeq(object_instances,
                        LAMBDA id : /\ instances[id].visible
                                    /\ instances[id].depth >= -DrawDepthLimit
                                    /\ instances[id].depth <= DrawDepthLimit))

\* Room::draw, one instance of depth_draws: its sprite, then dispatch(Draw)
DrawNext ==
    /\ UNCHANGED << budgetVars, scriptVars, evalVars >>
    /\ FrameIs("draw") /\ Top.todo # << >>
    /\ DispatchTo([stack EXCEPT ![Len(stack)].todo = Tail(@)], log, Head(Top.todo),
                  instances[Head(Top.todo)].object_index, "Draw", "draw")
    /\ UNCHANGED << globalVars, roomVars, phase, panicked, last_goto, hist_alarm, lifeVars >>

\* Room::draw returns (the foreground layers are drawn)
DrawEnd ==
    /\ UNCHANGED << budgetVars, scriptVars, evalVars >>
    /\ FrameIs("draw") /\ Top.todo = << >>
    /\ stack' = Pop
    /\ UNCHANGED << globalVars, roomVars, phase, panicked, histVars >>


(***************************************************************************)
(* The host functions a running handler's script calls (scripts.rs).       *)
(***************************************************************************)
InHandler == FrameIs("handler") /\ calls < MaxCalls
LogCall(k, arg) == Append(log, [k |-> k, ev |-> Top.ev, id |-> Top.id, arg |-> arg, via |-> Top.via])

\* a panic aborts the process where it stands
Panic ==
    /\ panicked' = TRUE
    /\ UNCHANGED << next_room_index, type_instances, roomVars, phase, stack, last_goto,
                    hist_alarm, lifeVars >>

\* a Global::instance that does not consult added_instances
GlobalInstanceLiveOnly(id) ==
    IF id \in ObjectTypes THEN "type"
    ELSE IF id \in script_instances THEN "script"
    ELSE IF id \in Range(object_instances) THEN "live"
    ELSE "none"

\* Global::instance: what the id resolves to
GlobalInstance(id) ==
    IF id \in ObjectTypes THEN "type"
    ELSE IF id \in added_instances THEN "added"
    ELSE IF id \in script_instances THEN "script"
    ELSE IF id \in Range(object_instances) THEN "live"
    ELSE "none"

\* Global::instance_number
InstanceNumber(oi) == Cardinality(type_instances[oi])

\* instance_create(x, y, object_index): a fresh id, Global::instance_create
\* (its alarm table is a script instance), then Create dispatched to it
CallInstanceCreate ==
    /\ InHandler
    /\ calls' = calls + 1 /\ UNCHANGED << frames, scriptVars, evalVars >>
    /\ Len(object_instances) + Cardinality(added_instances) < MaxInst
    /\ last_instance_id' = last_instance_id + 2
    /\ UNCHANGED room_order_index
    /\ \E oi \in ObjectTypes :
         LET id == IdAt(1)
             alarm_id == IdAt(2)
         IN  IF RoomBorrow = "mut"
             THEN Panic /\ log' = LogCall("create", id)
             ELSE /\ script_instances' = script_instances \cup {alarm_id}
                  /\ added_instances' = added_instances \cup {id}
                  /\ type_instances' = [type_instances EXCEPT ![oi] = @ \cup {id}]
                  /\ instances' = [i \in DOMAIN instances \cup {id} |->
                                     IF i = id THEN NewBody(oi) ELSE instances[i]]
                  /\ hist_alarm' = [i \in DOMAIN hist_alarm \cup {id} |->
                                      IF i = id THEN NewHist ELSE hist_alarm[i]]
                  /\ hist_created' = hist_created \cup {id}
                  /\ DispatchTo(stack, LogCall("create", id), id, oi, "Create", "create")
                  /\ UNCHANGED << next_room_index, room_def, elapsed, object_instances,
                                  destroyed_instances, phase, panicked, last_goto,
                                  hist_removed >>

\* Room::destroy_instance
DestroyInstance(id) == destroyed_instances' = Append(destroyed_instances, id)

\* instance_destroy([id]) and the KillObject action: Global::destroy_instance
CallInstanceDestroy ==
    /\ InHandler
    /\ calls' = calls + 1 /\ UNCHANGED << frames, scriptVars, evalVars >>
    /\ \E target \in {Top.id} \cup Range(object_instances) \cup added_instances :
         /\ log' = LogCall("destroy", target)
         /\ IF RoomBorrow = "mut" \/ DestroyedBorrowed
            THEN Panic /\ UNCHANGED << room_order_index, last_instance_id >>
            ELSE /\ DestroyInstance(target)
                 /\ UNCHANGED << globalVars, room_def, elapsed, object_instances, added_instances,
                                 script_instances, instances, phase, stack, panicked,
                                 last_goto, hist_alarm, lifeVars >>

\* room_goto(index)
CallRoomGoto ==
    /\ InHandler
    /\ calls' = calls + 1 /\ UNCHANGED << frames, scriptVars, evalVars >>
    /\ \E r \in Rooms :
         /\ log' = LogCall("goto", r)
         /\ last_goto' = r
         /\ GotoRoom(r)
    /\ UNCHANGED << room_order_index, phase, panicked >>

\* room_goto_next(): Global::room_goto_next, goto_room_order
CallRoomGotoNext ==
    /\ InHandler
    /\ calls' = calls + 1 /\ UNCHANGED << frames, scriptVars, evalVars >>
    /\ room_order_index' = room_order_index + 1
    /\ log' = LogCall("goto_next", room_order_index + 1)
    /\ IF room_order_index + 1 >= Len(RoomOrder)
       THEN Panic /\ UNCHANGED last_instance_id
       ELSE /\ last_goto' = RoomOrder[room_order_index + 2]
            /\ GotoRoom(RoomOrder[room_order_index + 2])
            /\ UNCHANGED << phase, panicked >>

\* InstanceAlarm::set
AlarmSet(alarm, index, steps) ==
    IF steps <= 0
    THEN [i \in DOMAIN alarm \ {index} |-> alarm[i]]
    ELSE [i \in DOMAIN alarm \cup {index} |-> IF i = index THEN steps ELSE alarm[i]]

\* the SetAlarm action of the receiver's event (Instance::dispatch calls
\* self.alarm.set(index, steps))
CallSetAlarm ==
    /\ InHandler
    /\ calls' = calls + 1 /\ UNCHANGED << frames, scriptVars, evalVars >>
    /\ \E index \in AlarmIndexes, steps \in 0..MaxAlarm :
         /\ log' = LogCall("alarm", steps)
         /\ instances' = [instances EXCEPT ![Top.id].alarm = AlarmSet(@, index, steps)]
         /\ hist_alarm' = [hist_alarm EXCEPT ![Top.id][index] =
                             [n |-> IF steps > 0 THEN steps ELSE 0, age |-> 0, fired |-> 0]]
    /\ UNCHANGED << globalVars, room_def, elapsed, object_instances, added_instances,
                    destroyed_instances, script_instances, phase, stack, panicked, last_goto,
                    lifeVars >>

\* `with (id)` / `id.name`: Context::instance -> Global::instance
CallLookup ==
    /\ InHandler
    /\ calls' = calls + 1 /\ UNCHANGED << frames, scriptVars, evalVars >>
    /\ \E target \in Range(object_instances) \cup added_instances :
         /\ log' = LogCall("lookup", target)
         /\ IF \/ RoomBorrow = "mut"
               \/ GlobalInstance(target) = "live" /\ ObjectInstancesMutBorrowed
            THEN Panic
            ELSE UNCHANGED << next_room_index, type_instances, roomVars, phase, stack,
                              panicked, last_goto, hist_alarm, lifeVars >>
    /\ UNCHANGED << room_order_index, last_instance_id >>

(***************************************************************************)
(* The driver's frame: input dispatch, step(), draw(), cleanup().          *)
(***************************************************************************)
\* the sub-tick halves one frame adds: get_frame_time() * speed
FrameTimes == {1, 2}
Idle(p) == phase = p /\ ~panicked /\ stack = << >>

\* Global::dispatch(KeyPress(key)) for an input change, if there is one
DriverInput ==
    /\ Idle("input") /\ frames < MaxFrames
    /\ frames' = frames + 1 /\ UNCHANGED << calls, scriptVars, evalVars >>
    /\ phase' = "step"
    /\ log' = << >>
    /\ \E press \in BOOLEAN :
         stack' = IF press THEN << DispatchFrame("KeyPress", object_instances, "key") >> ELSE << >>
    /\ UNCHANGED << globalVars, roomVars, panicked, last_goto, hist_alarm, lifeVars >>

\* Global::step -> Room::step
DriverStep ==
    /\ UNCHANGED << budgetVars, scriptVars, evalVars >>
    /\ Idle("step")
    /\ phase' = "draw"
    /\ \E ft \in FrameTimes : elapsed' = elapsed + ft
    /\ stack' = << Frame("step", "while", 0, << >>, "step") >>
    /\ UNCHANGED << globalVars, room_def, object_instances, added_instances, destroyed_instances,
                    script_instances, instances, panicked, histVars >>

\* Global::draw -> Room::draw
DriverDraw ==
    /\ UNCHANGED << budgetVars, scriptVars, evalVars >>
    /\ Idle("draw")
    /\ phase' = "cleanup"
    /\ log' = << >>
    /\ stack' = << Frame("draw", "Draw", 0, DepthDraws, "draw") >>
    /\ UNCHANGED << globalVars, roomVars, panicked, last_goto, hist_alarm, lifeVars >>

\* Global::cleanup: the pending room change, or Room::cleanup under borrow_mut
DriverCleanup ==
    /\ UNCHANGED << budgetVars, scriptVars, evalVars >>
    /\ Idle("cleanup")
    /\ phase' = "input"
    /\ UNCHANGED log
    /\ last_goto' = NoRoom
    /\ IF next_room_index # NoRoom
       THEN /\ next_room_index' = NoRoom
            /\ LoadRoom(next_room_index)
       ELSE /\ CleanupBegin(stack, "global")
            /\ UNCHANGED << next_room_index, last_instance_id, type_instances, room_def, elapsed,
                            object_instances, added_instances, script_instances, instances,
                            hist_alarm, lifeVars >>
    /\ UNCHANGED << room_order_index, panicked >>

Next ==
    \/ Boot
    \/ DriverInput \/ DriverStep \/ DriverDraw \/ DriverCleanup
    \/ DispatchNext \/ DispatchEnd
    \/ CleanupNext \/ CleanupRemoveType \/ CleanupEnd
    \/ StepWhile \/ StepStage \/ InstanceStep \/ AlarmNext \/ StepLoopEnd
    \/ DrawNext \/ DrawEnd
    \/ HandlerReturn
    \/ CallInstanceCreate \/ CallInstanceDestroy \/ CallRoomGoto \/ CallRoomGotoNext
    \/ CallSetAlarm \/ CallLookup

Spec == Init /\ [][Next]_vars

(***************************************************************************)
(* The script evaluator's locals (gml/src/eval.rs): Context::exec_script   *)
(* and the statements that touch Context.locals.                           *)
(***************************************************************************)
\* nested exec_script activations
MaxDepth == 3
\* Value::Undefined, and the other values a script computes
Undefined == 0
ScriptValues == {Undefined, 1, 2}
\* the names a script declares with `var`
LocalNames == {"a"}
ArgumentName(index) == IF index = 0 THEN "argument0" ELSE "argument1"
\* Namespace::set_member
SetMember(ns, name, value) ==
    [m \in DOMAIN ns \cup {name} |-> IF m = name THEN value ELSE ns[m]]
InScript == ctx_stack # << >>
NoCall == [how |-> "none", before |-> << >>, after |-> << >>]

\* exec_script entered, from Instance::dispatch (no arguments) or from a
\* script's call expression through Global::call: the locals are taken and
\* the arguments bound
ScriptCall ==
    /\ Len(ctx_stack) < MaxDepth
    /\ \E arguments \in {<< >>} \cup { << v >> : v \in ScriptValues } :
         /\ ctx_stack' = Append(ctx_stack, [old_locals |-> ctx_locals])
         /\ ctx_locals' = [m \in { ArgumentName(k - 1) : k \in 1..Len(arguments) } |-> arguments[1]]
    /\ hist_call' = NoCall
    /\ UNCHANGED << worldVars, evalVars >>

\* Stmt::Var: `var name;`
ScriptVar ==
    /\ InScript
    /\ \E name \in LocalNames : ctx_locals' = SetMember(ctx_locals, name, Undefined)
    /\ hist_call' = NoCall
    /\ UNCHANGED << worldVars, evalVars, ctx_stack >>

\* Stmt::Assign to a name the locals hold (Context::set_var; another name is
\* set on the receiver instance)
ScriptAssign ==
    /\ InScript
    /\ \E name \in DOMAIN ctx_locals, value \in ScriptValues \ {Undefined} :
         ctx_locals' = SetMember(ctx_locals, name, value)
    /\ hist_call' = NoCall
    /\ UNCHANGED << worldVars, evalVars, ctx_stack >>

\* what the caller is left with when the activation on top finishes
Finished(how, after) ==
    IF Len(ctx_stack) >= 2
    THEN [how |-> how, before |-> ctx_stack[Len(ctx_stack)].old_locals, after |-> after]
    ELSE NoCall

\* exec_script runs past its last statement: self.locals = old_locals
ScriptEnd ==
    /\ InScript
    /\ ctx_locals' = ctx_stack[Len(ctx_stack)].old_locals
    /\ ctx_stack' = SubSeq(ctx_stack, 1, Len(ctx_stack) - 1)
    /\ hist_call' = Finished("end", ctx_locals')
    /\ UNCHANGED << worldVars, evalVars >>

\* Stmt::Exit: Err(Error::Exit) => break, then self.locals = old_locals
ScriptExit ==
    /\ InScript
    /\ ctx_locals' = ctx_stack[Len(ctx_stack)].old_locals
    /\ ctx_stack' = SubSeq(ctx_stack, 1, Len(ctx_stack) - 1)
    /\ hist_call' = Finished("exit", ctx_locals')
    /\ UNCHANGED << worldVars, evalVars >>

\* Stmt::Return: Err(Error::Return(value)) => return Ok(value)
ScriptReturn ==
    /\ InScript
    /\ ctx_locals' = ctx_locals
    /\ ctx_stack' = SubSeq(ctx_stack, 1, Len(ctx_stack) - 1)
    /\ hist_call' = Finished("return", ctx_locals')
    /\ UNCHANGED << worldVars, evalVars >>

NextScript ==
    \/ ScriptCall \/ ScriptVar \/ ScriptAssign
    \/ ScriptEnd \/ ScriptExit \/ ScriptReturn

SpecScript == Init /\ [][NextScript]_vars

(***************************************************************************)
(* Values (gml/src/eval.rs) and the string host functions (scripts.rs).    *)
(* A string is the sequence of its characters' codepoints; a Float is      *)
(* modelled for whole numbers only.                                        *)
(***************************************************************************)
\* largest number among the operands
MaxNum == 3
\* longest string among the operands
MaxStrLen == 3
\* the characters of operand strings: 'a', 'b', 'c'
Chars == {97, 98, 99}
Strings == UNION { [1..k -> Chars] : k \in 0..MaxStrLen }

\* enum Value
Value(t, n, s) == [t |-> t, n |-> n, s |-> s]
ValueUndefined == Value("Undefined", 0, << >>)
ValueBool(b) == Value("Bool", IF b THEN 1 ELSE 0, << >>)
ValueInt(n) == Value("Int", n, << >>)
ValueFloat(n) == Value("Float", n, << >>)
ValueString(s) == Value("String", 0, s)
Values ==
    {ValueUndefined} \cup { ValueBool(b) : b \in BOOLEAN }
    \cup { ValueInt(n) : n \in -1..MaxNum } \cup { ValueFloat(n) : n \in 0..1 }
    \cup { ValueString(s) : s \in Strings }

\* Result<Value>
Ok(v) == [ok |-> TRUE, value |-> v, error |-> "none"]
Err(e) == [ok |-> FALSE, value |-> ValueUndefined, error |-> e]

\* i32::to_string / the parse of a decimal numeral
RECURSIVE Digits(_)
Digits(n) == IF n < 10 THEN << 48 + n >> ELSE Digits(n \div 10) \o << 48 + (n % 10) >>
NumberToString(n) == IF n < 0 THEN << 45 >> \o Digits(-n) ELSE Digits(n)
RECURSIVE DigitsValue(_)
DigitsValue(s) ==
    IF s = << >> THEN 0 ELSE 10 * DigitsValue(SubSeq(s, 1, Len(s) - 1)) + (s[Len(s)] - 48)
IsDigits(s) == s # << >> /\ \A i \in 1..Len(s) : s[i] \in 48..57
\* str::parse().unwrap_or_default(): an optional sign and digits, else 0
ParseNumber(s) ==
    IF IsDigits(s) THEN DigitsValue(s)
    ELSE IF s # << >> /\ s[1] = 45 /\ IsDigits(Tail(s)) THEN -DigitsValue(Tail(s))
    ELSE IF s # << >> /\ s[1] = 43 /\ IsDigits(Tail(s)) THEN DigitsValue(Tail(s))
    ELSE 0

\* Value::to_bool
ToBool(v) ==
    CASE v.t = "Undefined" -> FALSE
      [] v.t = "Bool" -> v.n = 1
      [] v.t = "Int" -> v.n # 0
      [] v.t = "Float" -> v.n >= 1
      [] v.t = "String" -> v.s # << >>
\* Value::to_int
ToInt(v) == IF v.t = "String" THEN ParseNumber(v.s) ELSE v.n
\* Value::to_float
ToFloat(v) == IF v.t = "String" THEN ParseNumber(v.s) ELSE v.n
\* Value::to_str ("true" / "false" for a Bool)
ToStr(v) ==
    CASE v.t = "Undefined" -> << >>
      [] v.t = "Bool" -> IF v.n = 1 THEN << 116, 114, 117, 101 >> ELSE << 102, 97, 108, 115, 101 >>
      [] v.t = "Int" -> NumberToString(v.n)
      [] v.t = "Float" -> NumberToString(v.n)
      [] v.t = "String" -> v.s

\* an addition that coerces the right operand of a String
AddCoercing(lhs, rhs) ==
    IF lhs.t = "Int" /\ rhs.t = "Int" THEN Ok(ValueInt(lhs.n + rhs.n))
    ELSE IF rhs.t = "String" THEN Ok(ValueString(ToStr(lhs) \o rhs.s))
    ELSE IF lhs.t = "String" THEN Ok(ValueString(lhs.s \o ToStr(rhs)))
    ELSE Ok(ValueFloat(ToFloat(lhs) + ToFloat(rhs)))

\* impl Add for Value
Add(lhs, rhs) ==
    IF lhs.t = "Int" /\ rhs.t = "Int" THEN Ok(ValueInt(lhs.n + rhs.n))
    ELSE IF rhs.t = "String" THEN Ok(ValueString(ToStr(lhs) \o rhs.s))
    ELSE IF lhs.t = "String" THEN Err("InvalidOperands")
    ELSE Ok(ValueFloat(ToFloat(lhs) + ToFloat(rhs)))

\* i32 `/` and `%`: the quotient truncates toward zero and the remainder
\* has the sign of the dividend (rhs # 0)
Abs(n) == IF n < 0 THEN -n ELSE n
DivTrunc(a, b) == (IF (a < 0) = (b < 0) THEN 1 ELSE -1) * (Abs(a) \div Abs(b))
RemTrunc(a, b) == (IF a < 0 THEN -1 ELSE 1) * (Abs(a) % Abs(b))
\* str::repeat
RECURSIVE Repeat(_, _)
Repeat(s, count) == IF count <= 0 THEN << >> ELSE s \o Repeat(s, count - 1)

\* impl Sub for Value
Sub(lhs, rhs) ==
    IF lhs.t = "Int" /\ rhs.t = "Int" THEN Ok(ValueInt(lhs.n - rhs.n))
    ELSE IF rhs.t = "String" \/ lhs.t = "String" THEN Err("InvalidOperands")
    ELSE Ok(ValueFloat(ToFloat(lhs) - ToFloat(rhs)))
\* impl Mul for Value (a count that does not fit usize is 0)
Mul(lhs, rhs) ==
    IF lhs.t = "Int" /\ rhs.t = "Int" THEN Ok(ValueInt(lhs.n * rhs.n))
    ELSE IF lhs.t \in {"Int", "Float"} /\ rhs.t = "String"
         THEN Ok(ValueString(Repeat(rhs.s, IF ToInt(lhs) < 0 THEN 0 ELSE ToInt(lhs))))
    ELSE IF lhs.t = "String" THEN Err("InvalidOperands")
    ELSE Ok(ValueFloat(ToFloat(lhs) * ToFloat(rhs)))
\* impl Div for Value: an Int division by zero panics; the f64 quotient is
\* given for the divisor 1.0, the only one with a whole quotient here
Div(lhs, rhs) ==
    CASE lhs.t = "Int" /\ rhs.t = "Int" ->
           IF rhs.n = 0 THEN Err("panic") ELSE Ok(ValueInt(DivTrunc(lhs.n, rhs.n)))
      [] ~(lhs.t = "Int" /\ rhs.t = "Int") /\ (lhs.t = "String" \/ rhs.t = "String") ->
           Err("InvalidOperands")
      [] ~(lhs.t = "Int" /\ rhs.t = "Int") /\ lhs.t # "String" /\ rhs.t # "String"
         /\ ToFloat(rhs) = 1 -> Ok(ValueFloat(ToFloat(lhs)))
\* impl Rem for Value, likewise
Rem(lhs, rhs) ==
    CASE lhs.t = "Int" /\ rhs.t = "Int" ->
           IF rhs.n = 0 THEN Err("panic") ELSE Ok(ValueInt(RemTrunc(lhs.n, rhs.n)))
      [] ~(lhs.t = "Int" /\ rhs.t = "Int") /\ (lhs.t = "String" \/ rhs.t = "String") ->
           Err("InvalidOperands")
      [] ~(lhs.t = "Int" /\ rhs.t = "Int") /\ lhs.t # "String" /\ rhs.t # "String"
         /\ ToFloat(rhs) = 1 -> Ok(ValueFloat(0))

\* impl PartialEq for Value: equal variants compare their contents, a Float on
\* the left compares with the other side's to_float(), anything else is false
Eq(lhs, rhs) ==
    IF lhs.t = "Undefined" /\ rhs.t = "Undefined" THEN TRUE
    ELSE IF lhs.t = "String" /\ rhs.t = "String" THEN lhs.s = rhs.s
    ELSE IF lhs.t = "Bool" /\ rhs.t = "Bool" THEN lhs.n = rhs.n
    ELSE IF lhs.t = "Int" /\ rhs.t = "Int" THEN lhs.n = rhs.n
    ELSE IF lhs.t = "Float" THEN lhs.n = ToFloat(rhs)
    ELSE FALSE
\* Expr::Unary with UnaryOp::Pos and UnaryOp::Neg: the operand's to_int(),
\* negated for Neg, as an Int
Pos(v) == ValueInt(ToInt(v))
Neg(v) == ValueInt(-ToInt(v))

\* scripts::call "string_char_at": value.get(index as usize..) and the first
\* char of that slice (a negative index becomes a huge usize)
StringCharAt(args) ==
    LET value == ToStr(args[1])
        index == ToInt(args[2])
    IN  IF index >= 0 /\ index < Len(value)
        THEN Ok(ValueInt(value[index + 1])) ELSE Ok(ValueUndefined)

\* Expr::Binary with BinaryOp::Add on two evaluated operands (one
\* operation per behaviour: the functions are pure)
EvalAdd ==
    /\ last_op.fn = "none"
    /\ \E lhs, rhs \in Values :
         last_op' = [fn |-> "add", args |-> << lhs, rhs >>, result |-> Add(lhs, rhs)]
    /\ UNCHANGED << worldVars, scriptVars, objectVars, loadVars, gmkVars, textVars >>

\* Expr::Call of string_char_at(s, i)
CallStringCharAt ==
    /\ last_op.fn = "none"
    /\ \E s, i \in Values :
         last_op' = [fn |-> "string_char_at", args |-> << s, i >>,
                     result |-> StringCharAt(<< s, i >>)]
    /\ UNCHANGED << worldVars, scriptVars, objectVars, loadVars, gmkVars, textVars >>

\* Expr::Binary with BinaryOp::Sub, Mul, Div or Rem on two evaluated
\* operands (f64 quotients only by 1.0)
EvalArith ==
    /\ last_op.fn = "none"
    /\ \E lhs, rhs \in Values :
         \/ last_op' = [fn |-> "sub", args |-> << lhs, rhs >>, result |-> Sub(lhs, rhs)]
         \/ last_op' = [fn |-> "mul", args |-> << lhs, rhs >>, result |-> Mul(lhs, rhs)]
         \/ /\ (lhs.t = "Int" /\ rhs.t = "Int") \/ lhs.t = "String" \/ rhs.t = "String"
               \/ ToFloat(rhs) = 1
            /\ \/ last_op' = [fn |-> "div", args |-> << lhs, rhs >>, result |-> Div(lhs, rhs)]
               \/ last_op' = [fn |-> "rem", args |-> << lhs, rhs >>, result |-> Rem(lhs, rhs)]
    /\ UNCHANGED << worldVars, scriptVars, objectVars, loadVars, gmkVars, textVars >>

\* Expr::Binary with BinaryOp::Eq on two evaluated operands
EvalEq ==
    /\ last_op.fn = "none"
    /\ \E lhs, rhs \in Values :
         last_op' = [fn |-> "eq", args |-> << lhs, rhs >>, result |-> Ok(ValueBool(Eq(lhs, rhs)))]
    /\ UNCHANGED << worldVars, scriptVars, objectVars, loadVars, gmkVars, textVars >>

\* Expr::Unary with UnaryOp::Pos or UnaryOp::Neg on an evaluated operand
EvalUnary ==
    /\ last_op.fn = "none"
    /\ \E v \in Values :
         \/ last_op' = [fn |-> "pos", args |-> << v >>, result |-> Ok(Pos(v))]
         \/ last_op' = [fn |-> "neg", args |-> << v >>, result |-> Ok(Neg(v))]
    /\ UNCHANGED << worldVars, scriptVars, objectVars, loadVars, gmkVars, textVars >>

NextValue == EvalAdd \/ EvalArith \/ CallStringCharAt \/ EvalEq \/ EvalUnary

SpecValue == Init /\ [][NextValue]_vars

(***************************************************************************)
(* The objects scripts read and write: impl gml::eval::Global for Global   *)
(* (global.rs), impl Object for Instance (instance.rs), ObjectType         *)
(* (objects.rs), Namespace and Array (eval.rs), and Context's name         *)
(* resolution, assignment and with (eval.rs).                              *)
(***************************************************************************)
\* statements one script executes
MaxStmts == 2
\* Option::None of an Option<Value>
None == Value("None", 0, << >>)

\* define_consts: the vk_ names and their key codes (gmk_file::Key)
KeyConsts ==
    [vk_nokey |-> 0, vk_anykey |-> 1, vk_backspace |-> 8, vk_tab |-> 9, vk_enter |-> 13,
     vk_shift |-> 16, vk_control |-> 17, vk_alt |-> 18, vk_escape |-> 27, vk_space |-> 32,
     vk_pageup |-> 33, vk_pagedown |-> 34, vk_end |-> 35, vk_home |-> 36, vk_left |-> 37,
     vk_up |-> 38, vk_right |-> 39, vk_down |-> 40, vk_insert |-> 45, vk_delete |-> 46,
     vk_numpad0 |-> 96, vk_numpad1 |-> 97, vk_numpad2 |-> 98, vk_numpad3 |-> 99,
     vk_numpad4 |-> 100, vk_numpad5 |-> 101, vk_numpad6 |-> 102, vk_numpad7 |-> 103,
     vk_numpad8 |-> 104, vk_numpad9 |-> 105, vk_multiply |-> 106, vk_add |-> 107,
     vk_subtract |-> 108, vk_decimal |-> 109, vk_divide |-> 110]
\* define_consts: the c_ names
ColorConsts ==
    [c_aqua |-> 16776960, c_black |-> 0, c_blue |-> 16711680, c_dkgray |-> 4210752,
     c_fuchsia |-> 16711935, c_gray |-> 8421504, c_green |-> 32768, c_lime |-> 65280,
     c_ltgray |-> 12632256, c_maroon |-> 128, c_navy |-> 8388608, c_olive |-> 32896,
     c_orange |-> 4235519, c_purple |-> 8388736, c_red |-> 255, c_silver |-> 12632256,
     c_teal |-> 8421376, c_white |-> 16777215, c_yellow |-> 65535]
\* the project's resource names: objects and rooms by index, scripts by position
ObjectName(oi) == IF oi = 0 THEN "obj0" ELSE "obj1"
RoomName(r) == IF r = 0 THEN "room0" ELSE "room1"
ResourceConsts(c) ==
    LET named(k) == { j \in 1..Len(c.scripts) : c.scripts[j].name = c.scripts[k].name }
    IN  [n \in { c.scripts[k].name : k \in 1..Len(c.scripts) } |->
           (CHOOSE k \in 1..Len(c.scripts) :
              c.scripts[k].name = n /\ \A j \in named(k) : j <= k) - 1]
        @@ [n \in { RoomName(r) : r \in Rooms } |-> CHOOSE r \in Rooms : RoomName(r) = n]
        @@ [n \in { ObjectName(oi) : oi \in ObjectTypes } |->
              CHOOSE oi \in ObjectTypes : ObjectName(oi) = n]
\* define_consts: a later insert of a name replaces the earlier one
DefineConsts(c) ==
    LET ints == ResourceConsts(c) @@ ColorConsts @@ KeyConsts
    IN  [n \in DOMAIN ints |-> ValueInt(ints[n])]
\* define_scripts, every source parsing: names and values of the DoubleMap
DefineScripts(c) ==
    [names |-> [n \in { c.scripts[k].name : k \in 1..Len(c.scripts) } |->
                  (CHOOSE k \in 1..Len(c.scripts) : c.scripts[k].name = n) - 1],
     values |-> [i \in 0..(Len(c.scripts) - 1) |-> c.scripts[i + 1].stmts]]

\* Global::instance_create: the InstanceState it builds (each placement at
\* the origin, objects without a sprite; image_blend as its r, g, b bytes)
NewState(alarm_id) ==
    [x |-> 0, y |-> 0, velocity |-> [kind |-> "Cartesian", a |-> 0, b |-> 0],
     sprite_index |-> -1, image_speed |-> 1, image_index |-> 0,
     image_blend |-> << 255, 255, 255 >>, image_alpha |-> 1, alarm_id |-> alarm_id]
\* InstanceVelocity::polar_mut / cartesian_mut: the representation switches;
\* the conversion is given for vectors on the positive x axis, the only ones
\* the scripts of this model produce
PolarMut(v) ==
    CASE v.kind = "Polar" -> v
      [] v.kind = "Cartesian" /\ v.b = 0 /\ v.a >= 0 -> [kind |-> "Polar", a |-> v.a, b |-> 0]
CartesianMut(v) ==
    CASE v.kind = "Cartesian" -> v
      [] v.kind = "Polar" /\ v.b = 0 -> [kind |-> "Cartesian", a |-> v.a, b |-> 0]
\* i32::to_le_bytes: the three low bytes
LeBytes(color) == << color % 256, (color \div 256) % 256, (color \div 65536) % 256 >>

\* impl Object for Instance: member
InstanceMember(id, name) ==
    LET state == inst_state[id]
    IN  CASE name = "visible" -> ValueBool(instances[id].visible)
          [] name = "depth" -> ValueInt(instances[id].depth)
          [] name = "x" -> ValueFloat(state.x)
          [] name = "y" -> ValueFloat(state.y)
          [] name = "alarm" -> ValueInt(state.alarm_id)
          [] name = "sprite_index" -> ValueInt(state.sprite_index)
          [] name = "image_speed" -> ValueFloat(state.image_speed)
          [] name = "image_index" -> ValueFloat(state.image_index)
          [] name = "image_single" ->
               ValueFloat(IF state.image_speed > 0 THEN state.image_index ELSE -1)
          [] name = "image_alpha" -> ValueFloat(state.image_alpha)
          [] OTHER -> IF name \in DOMAIN inst_vars[id] THEN inst_vars[id][name] ELSE None

\* impl Object for Instance: set_member, on o = the instance's body, state
\* and vars; the result and the instance as it is left
InstanceSetMember(o, name, value) ==
    LET done(p) == [ok |-> TRUE, error |-> "none", o |-> p]
        st(f, v) == done([o EXCEPT !.state[f] = v])
    IN  CASE name = "visible" -> done([o EXCEPT !.body.visible = ToBool(value)])
          [] name = "depth" -> done([o EXCEPT !.body.depth = ToInt(value)])
          [] name = "x" -> st("x", ToFloat(value))
          [] name = "y" -> st("y", ToFloat(value))
          [] name = "speed" -> st("velocity", [PolarMut(o.state.velocity) EXCEPT !.a = ToFloat(value)])
          [] name = "direction" -> st("velocity", [PolarMut(o.state.velocity) EXCEPT !.b = ToFloat(value)])
          [] name = "hspeed" -> st("velocity", [CartesianMut(o.state.velocity) EXCEPT !.a = ToFloat(value)])
          [] name = "vspeed" -> st("velocity", [CartesianMut(o.state.velocity) EXCEPT !.b = ToFloat(value)])
          [] name = "alarm" -> [ok |-> FALSE, error |-> "AssignToValue", o |-> o]
          [] name = "sprite_index" ->
               done([o EXCEPT !.state.sprite_index = ToInt(value), !.state.image_index = 0])
          [] name = "image_speed" -> st("image_speed", ToFloat(value))
          [] name = "image_index" -> st("image_index", ToFloat(value))
          [] name = "image_single" ->
               IF ToFloat(value) < 0 THEN st("image_speed", 1)
               ELSE done([o EXCEPT !.state.image_speed = 0, !.state.image_index = ToFloat(value)])
          [] name = "image_blend" -> st("image_blend", LeBytes(ToInt(value)))
          [] name = "image_alpha" -> st("image_alpha", ToFloat(value))
          [] OTHER -> done([o EXCEPT !.vars = SetMember(o.vars, name, value)])

\* the objects a script can change: the instances' bodies, states and vars
\* and the script objects
Objects == [body |-> instances, state |-> inst_state, vars |-> inst_vars, script |-> script_objects]
InstanceOf(w, id) == [body |-> w.body[id], state |-> w.state[id], vars |-> w.vars[id]]
\* Global::instance: the Rc<dyn Object> an id resolves to
ObjectOf(id) ==
    CASE GlobalInstance(id) = "type" -> [kind |-> "ObjectType", id |-> id]
      [] GlobalInstance(id) \in {"added", "live"} -> [kind |-> "Instance", id |-> id]
      [] GlobalInstance(id) = "script" -> [kind |-> script_objects[id].kind, id |-> id]
      [] OTHER -> [kind |-> "None", id |-> id]

\* Object::member of the object ref: every Option<Value> it may return (an
\* ObjectType grabs any of its instances)
ObjectMember(ref, name) ==
    CASE ref.kind = "Instance" -> { InstanceMember(ref.id, name) }
      [] ref.kind = "ObjectType" ->
           IF type_instances[ref.id] = {} THEN { None }
           ELSE { InstanceMember(i, name) : i \in type_instances[ref.id] }
      [] ref.kind = "Namespace" ->
           { IF name \in DOMAIN script_objects[ref.id].vars
             THEN script_objects[ref.id].vars[name] ELSE None }
      [] OTHER -> { None }

\* Object::set_member of the object ref on the objects w: the result and the
\* objects as they are left (an ObjectType sets the member on each of its
\* instances; InstanceAlarm and Array keep the trait's default)
ObjectSetMember(w, ref, name, value) ==
    LET ids == CASE ref.kind = "Instance" -> { ref.id }
                 [] ref.kind = "ObjectType" -> type_instances[ref.id]
                 [] OTHER -> {}
        set(i) == InstanceSetMember(InstanceOf(w, i), name, value)
    IN  IF \E i \in ids : ~set(i).ok
        THEN [ok |-> FALSE, error |-> "AssignToValue", w |-> w]
        ELSE [ok |-> TRUE, error |-> "none",
              w |-> [body |-> [i \in DOMAIN w.body |-> IF i \in ids THEN set(i).o.body ELSE w.body[i]],
                     state |-> [i \in DOMAIN w.state |-> IF i \in ids THEN set(i).o.state ELSE w.state[i]],
                     vars |-> [i \in DOMAIN w.vars |-> IF i \in ids THEN set(i).o.vars ELSE w.vars[i]],
                     script |-> IF ref.kind = "Namespace"
                                THEN [w.script EXCEPT ![ref.id].vars = SetMember(@, name, value)]
                                ELSE w.script]]

\* an Array::set_index that pushes the value instead of resizing to the index
ObjectSetIndexPush(w, ref, index, value) ==
    IF ref.kind = "Array" /\ index >= 0
    THEN [w EXCEPT !.script[ref.id].items = Append(@, value)]
    ELSE w

\* Array::index / the trait's default index
ObjectIndex(ref, index) ==
    IF ref.kind = "Array" /\ index >= 0 /\ index < Len(script_objects[ref.id].items)
    THEN script_objects[ref.id].items[index + 1] ELSE None
\* Array::set_index (resize with Undefined, then store) and
\* InstanceAlarm::set_index (alarm.set) on the objects w
ObjectSetIndex(w, ref, index, value) ==
    CASE ref.kind = "Array" /\ index >= 0 ->
           LET items == w.script[ref.id].items
               n == IF Len(items) <= index THEN index + 1 ELSE Len(items)
           IN  [w EXCEPT !.script[ref.id].items =
                  [k \in 1..n |-> IF k = index + 1 THEN value
                                  ELSE IF k <= Len(items) THEN items[k] ELSE ValueUndefined]]
      [] ref.kind = "InstanceAlarm" ->
           LET owner == w.script[ref.id].owner
           IN  [w EXCEPT !.body[owner].alarm = AlarmSet(@, index, ToInt(value))]
      [] OTHER -> w

\* impl gml::eval::Global for Global: get
GlobalGet(name) ==
    IF name \in DOMAIN scripts.names THEN ValueInt(scripts.names[name])
    ELSE IF name \in DOMAIN consts THEN consts[name]
    ELSE IF name \in DOMAIN global_vars THEN global_vars[name]
    ELSE None

\* Context.instance: the receiver
Receiver == ctx_instance[Len(ctx_instance)]
\* a read that asks the receiver before the script's locals
VarValuesReceiverFirst(name) ==
    { IF m # None THEN m
      ELSE IF name \in DOMAIN ctx_locals THEN ctx_locals[name]
      ELSE IF GlobalGet(name) # None THEN GlobalGet(name) ELSE ValueUndefined :
      m \in ObjectMember(Receiver, name) }
\* Context::var of Var::Local(name): the values the read may yield
VarValues(name) ==
    IF name \in DOMAIN ctx_locals THEN { ctx_locals[name] }
    ELSE { IF m # None THEN m
           ELSE IF GlobalGet(name) # None THEN GlobalGet(name) ELSE ValueUndefined :
           m \in ObjectMember(Receiver, name) }
\* Context::var of Var::Global(name)
GlobalVarValue(name) == IF GlobalGet(name) # None THEN GlobalGet(name) ELSE ValueUndefined
\* Context::place_value of Place::Index(Place::Var(Local(name)), [index]):
\* the results the read may yield
IndexValues(name, index) ==
    { CASE lhs.t = "Undefined" -> Ok(ValueUndefined)
        [] lhs.t = "Int" ->
             IF ObjectOf(lhs.n).kind = "None" THEN Err("InvalidObject")
             ELSE IF ObjectIndex(ObjectOf(lhs.n), index) # None
                  THEN Ok(ObjectIndex(ObjectOf(lhs.n), index)) ELSE Ok(ValueUndefined)
        [] lhs.t = "String" ->
             Ok(ValueString(SubSeq(lhs.s, (IF index - 1 > 0 THEN index - 1 ELSE 0) + 1, Len(lhs.s))))
        [] OTHER -> Err("InvalidObject") :
      lhs \in VarValues(name) }

\* the names scripts of the model use: the instance's structured names, a
\* free-form name, and published constants
StructuredNames ==
    {"x", "y", "depth", "visible", "speed", "direction", "hspeed", "vspeed", "alarm",
     "sprite_index", "image_speed", "image_index", "image_single", "image_blend", "image_alpha"}
FreeNames == {"foo"}
ConstNames == {"vk_left", "c_red", "obj1", "scr0"}
\* the literals scripts of the model assign (whole numbers; the velocity
\* stays on the positive x axis)
Literals(name) ==
    IF name \in {"vspeed", "direction"} THEN { ValueInt(0) } ELSE { ValueInt(0), ValueInt(7) }
Indexes == {-1, 0, 3}

\* the project of the evaluator's world: one script resource, no actions
EvalContent == [scripts |-> << [name |-> "scr0", parses |-> TRUE, stmts |-> << >>] >>, actions |-> << >>]

\* goto_room_order(0) and the first Instance::dispatch of its
\* dispatch(Create), live map iterating in the order p: what they leave in
\* the variables they write (Context::new: the first instance is the
\* receiver, no locals)
EnteredRoom(p) ==
    LET pl == Placements(RoomOrder[1])
        n == Len(pl)
        ids == { pl[k].id : k \in 1..n }
        oiOf(id) == pl[CHOOSE k \in 1..n : pl[k].id = id].oi
        alarmOf(id) == ContentLastInstanceId + (CHOOSE k \in 1..n : pl[k].id = id) - 1
    IN  [last_instance_id |-> ContentLastInstanceId + n + 1,
         type_instances |-> [oi \in ObjectTypes |-> { id \in ids : oiOf(id) = oi }],
         room_def |-> RoomOrder[1],
         script_instances |-> ContentLastInstanceId..(ContentLastInstanceId + n),
         instances |-> [id \in ids |-> NewBody(oiOf(id))],
         object_instances |-> p,
         stack |-> << Frame("dispatch", "Create", 0, Tail(p), "goto"),
                      Frame("handler", "Create", p[1], << >>, "dispatch") >>,
         log |-> << [k |-> "run", ev |-> "Create", id |-> p[1],
                     arg |-> HandlerObject(oiOf(p[1]), "Create"), via |-> "dispatch"] >>,
         ctx_instance |-> << [kind |-> "Instance", id |-> p[1]] >>,
         hist_alarm |-> [id \in ids |-> NewHist],
         global_vars |-> [face |-> ValueInt(ContentLastInstanceId + n)],
         inst_state |-> [id \in ids |-> NewState(alarmOf(id))],
         inst_vars |-> [id \in ids |-> << >>],
         script_objects |->
             [i \in ContentLastInstanceId..(ContentLastInstanceId + n) |->
                IF i = ContentLastInstanceId + n
                THEN [kind |-> "Namespace", owner |-> 0, items |-> << >>, vars |-> [count |-> ValueInt(0)]]
                ELSE [kind |-> "InstanceAlarm", owner |-> pl[i - ContentLastInstanceId + 1].id,
                      items |-> << >>, vars |-> << >>]]]
\* the orders the live map may iterate the placed instances in
RoomOrders == Perms({ Placements(RoomOrder[1])[k].id : k \in 1..Len(Placements(RoomOrder[1])) })

\* Global::new on EvalContent, then the room entered: a script of the first
\* Create handler is about to run
InitEval ==
    /\ room_order_index = 0
    /\ next_room_index = NoRoom
    /\ elapsed = 0
    /\ added_instances = {}
    /\ destroyed_instances = << >>
    /\ phase = "input"
    /\ panicked = FALSE
    /\ \E p \in RoomOrders :
         /\ last_instance_id = EnteredRoom(p).last_instance_id
         /\ type_instances = EnteredRoom(p).type_instances
         /\ room_def = EnteredRoom(p).room_def
         /\ script_instances = EnteredRoom(p).script_instances
         /\ instances = EnteredRoom(p).instances
         /\ object_instances = EnteredRoom(p).object_instances
         /\ stack = EnteredRoom(p).stack
         /\ log = EnteredRoom(p).log
         /\ ctx_instance = EnteredRoom(p).ctx_instance
         /\ hist_alarm = EnteredRoom(p).hist_alarm
         /\ global_vars = EnteredRoom(p).global_vars
         /\ inst_state = EnteredRoom(p).inst_state
         /\ inst_vars = EnteredRoom(p).inst_vars
         /\ script_objects = EnteredRoom(p).script_objects
    /\ last_goto = NoRoom
    /\ hist_created = {}
    /\ hist_removed = {}
    /\ calls = 0
    /\ frames = 0
    /\ ctx_locals = << >>
    /\ ctx_stack = << >>
    /\ hist_call = NoCall
    /\ consts = DefineConsts(EvalContent)
    /\ scripts = DefineScripts(EvalContent)
    /\ content = EvalContent
    /\ event_actions = << >>
    /\ pc = 0
    /\ stderr = << >>
    /\ last_op = [fn |-> "none"]
    /\ NoFile /\ NoText

\* what no statement of a script changes
evalFixed == << room_order_index, next_room_index, type_instances, room_def, elapsed,
                object_instances, added_instances, destroyed_instances, phase, stack,
                panicked, histVars, budgetVars, ctx_stack, hist_call, consts, scripts,
                content, event_actions, stderr, gmkVars, textVars >>
\* the script still runs: exec_script returns at the first statement that fails
Executing == pc < MaxStmts /\ (last_op.fn # "none" => last_op.result.ok)
Stmt(fn, name, index, value, result) ==
    [fn |-> fn, name |-> name, index |-> index, value |-> value, result |-> result]
\* the objects w become the state
Store(w) ==
    /\ instances' = w.body
    /\ inst_state' = w.state
    /\ inst_vars' = w.vars
    /\ script_objects' = w.script
\* a statement ends: with_instance has restored the receiver of every with
\* an error leaves through
Ends(result) ==
    /\ pc' = pc + 1
    /\ ctx_instance' = IF result.ok THEN ctx_instance ELSE << ctx_instance[1] >>

\* Stmt::Var: `var name;`
ExecVar ==
    /\ Executing
    /\ \E name \in FreeNames :
         /\ ctx_locals' = SetMember(ctx_locals, name, ValueUndefined)
         /\ last_op' = Stmt("var", name, 0, ValueUndefined, Ok(ValueUndefined))
    /\ Ends(Ok(ValueUndefined))
    /\ UNCHANGED << evalFixed, instances, inst_state, inst_vars, script_objects,
                    script_instances, last_instance_id, global_vars >>

\* the names scripts of the model read: a free-form name, a structured
\* name, a constant and a name nothing defines
ReadNames == FreeNames \cup {"x", "vk_left", "bar"}
\* Context::var, as the expression of the statement that comes next
\* evaluates `name` or `global.name` (one read between two statements)
ExecRead ==
    /\ last_op.fn # "none" => last_op.result.ok
    /\ last_op.fn \notin {"read", "read_global"}
    /\ \E name \in ReadNames :
         \/ \E value \in VarValues(name) :
              last_op' = Stmt("read", name, 0, value, Ok(value))
         \/ last_op' = Stmt("read_global", name, 0, GlobalVarValue(name), Ok(GlobalVarValue(name)))
    /\ UNCHANGED << evalFixed, instances, inst_state, inst_vars, script_objects, script_instances,
                    last_instance_id, global_vars, ctx_locals, ctx_instance, pc >>

\* a set_var that always writes to the receiver
SetVarReceiver(w, locals, name, value) ==
    [ok |-> ObjectSetMember(w, Receiver, name, value).ok,
     error |-> ObjectSetMember(w, Receiver, name, value).error,
     w |-> ObjectSetMember(w, Receiver, name, value).w, locals |-> locals]

\* Context::set_var of Var::Local(name) on the objects w: the result, the
\* locals and the objects as they are left
SetVar(w, locals, name, value) ==
    IF name \in DOMAIN locals
    THEN [ok |-> TRUE, error |-> "none", w |-> w, locals |-> SetMember(locals, name, value)]
    ELSE [ok |-> ObjectSetMember(w, Receiver, name, value).ok,
          error |-> ObjectSetMember(w, Receiver, name, value).error,
          w |-> ObjectSetMember(w, Receiver, name, value).w, locals |-> locals]

\* Stmt::Assign `name = literal`: exec_assign, set_place of Place::Var(Local)
ExecAssign ==
    /\ Executing
    /\ \E name \in StructuredNames \cup FreeNames \cup ConstNames : \E value \in Literals(name) :
         LET r == SetVar(Objects, ctx_locals, name, value)
             result == IF r.ok THEN Ok(ValueUndefined) ELSE Err(r.error)
         IN  /\ Store(r.w)
             /\ ctx_locals' = r.locals
             /\ last_op' = Stmt("assign", name, 0, value, result)
             /\ Ends(result)
    /\ UNCHANGED << evalFixed, script_instances, last_instance_id, global_vars >>

\* Stmt::Assign `global.name = literal`: set_var of Var::Global, Global::set
ExecAssignGlobal ==
    /\ Executing
    /\ \E name \in FreeNames \cup ConstNames : \E value \in Literals(name) :
         LET result == IF name \in DOMAIN consts THEN Err("AssignToValue") ELSE Ok(ValueUndefined)
         IN  /\ global_vars' = IF result.ok THEN SetMember(global_vars, name, value) ELSE global_vars
             /\ last_op' = Stmt("assign_global", name, 0, value, result)
             /\ Ends(result)
    /\ UNCHANGED << evalFixed, instances, inst_state, inst_vars, script_objects,
                    script_instances, last_instance_id, ctx_locals >>

\* Stmt::Assign `name[index] = literal`: set_place of Place::Index over
\* Place::Var(Local(name)); an Undefined name gets a new Array
\* (Global::new_instance) whose id is stored back through set_var
ExecAssignIndex ==
    /\ Executing
    /\ \E name \in FreeNames \cup {"alarm", "x", "hspeed"} : \E index \in Indexes :
       \E value \in Literals(name) : \E lhs \in VarValues(name) :
         LET id == IdAt(1)
             fresh == lhs.t = "Undefined"
             made == [Objects EXCEPT !.script =
                        [i \in DOMAIN @ \cup {id} |->
                           IF i = id THEN [kind |-> "Array", owner |-> 0, items |-> << >>, vars |-> << >>]
                           ELSE @[i]]]
             back == SetVar(made, ctx_locals, name, ValueInt(id))
             lhs_id == IF fresh THEN id ELSE lhs.n
             \* Global::instance(lhs_id) once the Array is in script_instances
             ref == IF fresh
                    THEN (IF id \in ObjectTypes THEN [kind |-> "ObjectType", id |-> id]
                          ELSE IF id \in added_instances THEN [kind |-> "Instance", id |-> id]
                          ELSE [kind |-> "Array", id |-> id])
                    ELSE ObjectOf(lhs_id)
             result ==
                 CASE fresh /\ ~back.ok -> Err(back.error)
                   [] ~fresh /\ lhs.t # "Int" -> Err("InvalidObject")
                   [] ref.kind = "None" -> Err("InvalidObject")
                   [] OTHER -> Ok(ValueUndefined)
             w == IF fresh THEN back.w ELSE Objects
         IN  /\ Store(IF result.ok THEN ObjectSetIndex(w, ref, index, value) ELSE w)
             /\ ctx_locals' = IF fresh THEN back.locals ELSE ctx_locals
             /\ script_instances' = IF fresh THEN script_instances \cup {id} ELSE script_instances
             /\ last_instance_id' = IF fresh THEN last_instance_id + 1 ELSE last_instance_id
             /\ last_op' = Stmt("assign_index", name, index, value, result)
             /\ Ends(result)
    /\ UNCHANGED << evalFixed, global_vars >>

\* ObjectId::instance_id: u32::try_from(self.0) succeeds, else .expect panics
InstanceIdFits(id) == id >= 0

\* Stmt::With up to the body: the object is evaluated, as_object_id,
\* Context::instance (Global::instance starts with id.instance_id()), and
\* with_instance replaces the receiver
WithEnter ==
    /\ Executing
    /\ \E id \in -2..last_instance_id :
         LET ref == ObjectOf(id)
             result == IF ~InstanceIdFits(id) THEN Err("panic")
                       ELSE IF ref.kind = "None" THEN Err("InvalidObject") ELSE Ok(ValueUndefined)
         IN  /\ last_op' = Stmt("with", "", 0, ValueInt(id), result)
             /\ pc' = pc + 1
             /\ ctx_instance' = IF result.ok THEN Append(ctx_instance, ref) ELSE << ctx_instance[1] >>
    /\ UNCHANGED << evalFixed, instances, inst_state, inst_vars, script_objects,
                    script_instances, last_instance_id, global_vars, ctx_locals >>

\* with_instance after the body: self.instance = old_instance
WithExit ==
    /\ last_op.fn # "none" /\ last_op.result.ok
    /\ Len(ctx_instance) > 1
    /\ ctx_instance' = SubSeq(ctx_instance, 1, Len(ctx_instance) - 1)
    /\ last_op' = Stmt("with_end", "", 0, ValueInt(Receiver.id), Ok(ValueUndefined))
    /\ UNCHANGED << evalFixed, instances, inst_state, inst_vars, script_objects,
                    script_instances, last_instance_id, global_vars, ctx_locals, pc >>

NextEval ==
    \/ ExecVar \/ ExecAssign \/ ExecAssignGlobal \/ ExecAssignIndex
    \/ WithEnter \/ WithExit \/ ExecRead

SpecEval == InitEval /\ [][NextEval]_vars

(***************************************************************************)
(* Project load (Global::new) and the actions of one event                 *)
(* (Instance::dispatch).                                                   *)
(***************************************************************************)
MaxActions == 2

\* gmk_file::Key: the function keys, numbered on from Divide
FunctionKeys ==
    [vk_f1 |-> 111, vk_f2 |-> 112, vk_f3 |-> 113, vk_f4 |-> 114, vk_f5 |-> 115, vk_f6 |-> 116,
     vk_f7 |-> 117, vk_f8 |-> 118, vk_f9 |-> 119, vk_f10 |-> 120, vk_f11 |-> 121, vk_f12 |-> 122]

\* gml::parse_expr of an argument string: the literal 7 or an identifier
ParseExpr(source) ==
    IF source = "7" THEN [kind |-> "Int", n |-> 7, name |-> ""]
    ELSE [kind |-> "Var", n |-> 0, name |-> source]
\* the argument strings of the model: variable names and value expressions
ActionNames == {"x", "foo", "alarm"}
ActionExprs == {"7", "vk_left", "vk_f1"}
\* a script source: text gml::parse rejects, or `name = expr;`
Sources ==
    { [parses |-> FALSE, stmts |-> << >>] }
    \cup { [parses |-> TRUE, stmts |-> << [name |-> name, expr |-> ParseExpr(e)] >>] :
           name \in {"foo", "alarm"}, e \in ActionExprs }
\* gmk_file::Action of the kinds Code, Normal (action_execute_script) and
\* Variable, with its argument_values
ActionDefs ==
    { [kind |-> "Code", function_name |-> "", argument_values |-> << s >>] : s \in Sources }
    \cup { [kind |-> "Normal", function_name |-> "action_execute_script", argument_values |-> << 0 >>] }
    \cup { [kind |-> "Variable", function_name |-> "", argument_values |-> << name, e >>] :
           name \in ActionNames, e \in ActionExprs }
\* the projects loaded: one script resource, and one Create event, of one
\* to MaxActions actions, that both placed objects define
Contents ==
    { [scripts |-> << [name |-> "scr0", parses |-> s.parses, stmts |-> s.stmts] >>, actions |-> a] :
      s \in Sources,
      a \in UNION { [1..n -> ActionDefs] : n \in 1..MaxActions } }

InitLoad ==
    /\ room_order_index = 0
    /\ next_room_index = NoRoom
    /\ last_instance_id = ContentLastInstanceId
    /\ type_instances = [oi \in ObjectTypes |-> {}]
    /\ room_def = NoRoom
    /\ elapsed = 0
    /\ object_instances = << >>
    /\ added_instances = {}
    /\ destroyed_instances = << >>
    /\ script_instances = {}
    /\ instances = << >>
    /\ phase = "define_consts"
    /\ stack = << >>
    /\ panicked = FALSE
    /\ log = << >>
    /\ last_goto = NoRoom
    /\ hist_alarm = << >>
    /\ hist_created = {}
    /\ hist_removed = {}
    /\ calls = 0
    /\ frames = 0
    /\ ctx_locals = << >>
    /\ ctx_stack = << >>
    /\ hist_call = NoCall
    /\ consts = << >>
    /\ global_vars = << >>
    /\ scripts = [names |-> << >>, values |-> << >>]
    /\ inst_state = << >>
    /\ inst_vars = << >>
    /\ script_objects = << >>
    /\ ctx_instance = << >>
    /\ content \in Contents
    /\ event_actions = << >>
    /\ pc = 0
    /\ stderr = << >>
    /\ last_op = [fn |-> "none"]
    /\ NoFile /\ NoText

\* what the load and the event's actions never change
loadFixed == << room_order_index, next_room_index, elapsed, added_instances, destroyed_instances,
                last_goto, hist_created, hist_removed, budgetVars, scriptVars, content,
                gmkVars, textVars >>
\* what only entering the room changes
roomEntered == << last_instance_id, type_instances, room_def, script_instances, object_instances,
                  stack, log, hist_alarm, global_vars, script_objects, ctx_instance >>
instanceVars == << instances, inst_state, inst_vars >>

\* Global::new: let consts = define_consts(&content)
NewDefineConsts ==
    /\ phase = "define_consts" /\ ~panicked
    /\ consts' = DefineConsts(content)
    /\ phase' = "define_objects"
    /\ UNCHANGED << loadFixed, roomEntered, instanceVars, panicked, scripts, event_actions,
                    pc, stderr, last_op >>

\* define_objects, the translation of one gmk_file::Action (the argument
\* strings are argument_values[0] and [1] of the source)
DefineAction(action) ==
    CASE action.kind = "Code" ->
           [kind |-> "ScriptInline", script |-> action.argument_values[1].stmts,
            index |-> 0, name |-> "", expr |-> ParseExpr("7")]
      [] action.kind = "Normal" ->
           [kind |-> "ScriptRes", script |-> << >>,
            index |-> action.argument_values[1], name |-> "", expr |-> ParseExpr("7")]
      [] action.kind = "Variable" ->
           [kind |-> "SetVariable", script |-> << >>, index |-> 0,
            name |-> action.argument_values[1], expr |-> ParseExpr(action.argument_values[1])]

\* Global::new: let object_types = define_objects(&content); gml::parse of a
\* Code action's source is unwrapped
NewDefineObjects ==
    /\ phase = "define_objects" /\ ~panicked
    /\ IF \E k \in 1..Len(content.actions) :
            content.actions[k].kind = "Code" /\ ~content.actions[k].argument_values[1].parses
       THEN /\ panicked' = TRUE
            /\ UNCHANGED << phase, event_actions >>
       ELSE /\ event_actions' = [k \in 1..Len(content.actions) |-> DefineAction(content.actions[k])]
            /\ phase' = "define_scripts"
            /\ UNCHANGED panicked
    /\ UNCHANGED << loadFixed, roomEntered, instanceVars, consts, scripts, pc, stderr, last_op >>

\* Global::new: let scripts = define_scripts(&content); gml::parse of each
\* script resource is unwrapped
NewDefineScripts ==
    /\ phase = "define_scripts" /\ ~panicked
    /\ IF \E k \in 1..Len(content.scripts) : ~content.scripts[k].parses
       THEN /\ panicked' = TRUE
            /\ UNCHANGED << phase, scripts >>
       ELSE /\ scripts' = DefineScripts(content)
            /\ phase' = "boot"
            /\ UNCHANGED panicked
    /\ UNCHANGED << loadFixed, roomEntered, instanceVars, consts, event_actions, pc, stderr, last_op >>

\* the driver's goto_room_order(0) up to the first Instance::dispatch of
\* dispatch(Create): its loop over the event's actions starts
EnterRoom ==
    /\ phase = "boot" /\ ~panicked
    /\ phase' = "input"
    /\ \E p \in RoomOrders :
         /\ last_instance_id' = EnteredRoom(p).last_instance_id
         /\ type_instances' = EnteredRoom(p).type_instances
         /\ room_def' = EnteredRoom(p).room_def
         /\ script_instances' = EnteredRoom(p).script_instances
         /\ instances' = EnteredRoom(p).instances
         /\ object_instances' = EnteredRoom(p).object_instances
         /\ stack' = EnteredRoom(p).stack
         /\ log' = EnteredRoom(p).log
         /\ ctx_instance' = EnteredRoom(p).ctx_instance
         /\ hist_alarm' = EnteredRoom(p).hist_alarm
         /\ global_vars' = EnteredRoom(p).global_vars
         /\ inst_state' = EnteredRoom(p).inst_state
         /\ inst_vars' = EnteredRoom(p).inst_vars
         /\ script_objects' = EnteredRoom(p).script_objects
    /\ pc' = 1
    /\ UNCHANGED << loadFixed, panicked, consts, scripts, event_actions, stderr, last_op >>

\* Context::eval of the expressions ParseExpr yields: the values it may give
EvalExpr(expr) == IF expr.kind = "Int" THEN { ValueInt(expr.n) } ELSE VarValues(expr.name)
\* Instance::dispatch is at an action of the kind
AtAction(kind) ==
    /\ phase = "input" /\ ~panicked
    /\ pc \in 1..Len(event_actions)
    /\ event_actions[pc].kind = kind
ActionOp(result) ==
    [fn |-> "action", kind |-> event_actions[pc].kind, index |-> pc,
     name |-> event_actions[pc].name, result |-> result]
\* ctx.exec_script(script, &[]) and `if let Err(error) ... eprintln!`: the
\* script's statement assigns, an error is printed, the loop goes on
ExecLogged(script) ==
    /\ IF script = << >>
       THEN /\ last_op' = ActionOp(Ok(ValueUndefined))
            /\ UNCHANGED << instanceVars, stderr >>
       ELSE \E value \in EvalExpr(script[1].expr) :
              LET r == SetVar(Objects, ctx_locals, script[1].name, value)
              IN  /\ instances' = r.w.body
                  /\ inst_state' = r.w.state
                  /\ inst_vars' = r.w.vars
                  /\ stderr' = IF r.ok THEN stderr ELSE Append(stderr, r.error)
                  /\ last_op' = ActionOp(IF r.ok THEN Ok(ValueUndefined) ELSE Err(r.error))
    /\ pc' = pc + 1
    /\ UNCHANGED << loadFixed, roomEntered, panicked, phase, consts, scripts, event_actions >>

\* Instance::dispatch, Action::ScriptInline(script)
DispatchScriptInline ==
    /\ AtAction("ScriptInline")
    /\ ExecLogged(event_actions[pc].script)

\* Instance::dispatch, Action::ScriptRes(index)
DispatchScriptRes ==
    /\ AtAction("ScriptRes")
    /\ ExecLogged(scripts.values[event_actions[pc].index])

\* Instance::dispatch, Action::SetVariable(name, expr): ctx.eval(expr) and
\* self.set_member(name, value), both unwrapped
DispatchSetVariable ==
    /\ AtAction("SetVariable")
    /\ \E value \in EvalExpr(event_actions[pc].expr) :
         LET id == ctx_instance[1].id
             r == InstanceSetMember(InstanceOf(Objects, id), event_actions[pc].name, value)
         IN  /\ instances' = [instances EXCEPT ![id] = r.o.body]
             /\ inst_state' = [inst_state EXCEPT ![id] = r.o.state]
             /\ inst_vars' = [inst_vars EXCEPT ![id] = r.o.vars]
             /\ panicked' = ~r.ok
             /\ pc' = IF r.ok THEN pc + 1 ELSE pc
             /\ last_op' = ActionOp(IF r.ok THEN Ok(ValueUndefined) ELSE Err(r.error))
    /\ UNCHANGED << loadFixed, roomEntered, phase, consts, scripts, event_actions, stderr >>

NextLoad ==
    \/ NewDefineConsts \/ NewDefineObjects \/ NewDefineScripts \/ EnterRoom
    \/ DispatchScriptInline \/ DispatchScriptRes \/ DispatchSetVariable

SpecLoad == InitLoad /\ [][NextLoad]_vars

(***************************************************************************)
(* The project file decoder: gmk_file::parse (gmk-file/src/lib.rs).        *)
(***************************************************************************)
\* bytes a file holds after its header
MaxPayload == 3

GmkMagic == 1234321
TableSize == 256
SwapCount == 10000
Bytes == 0..(TableSize - 1)

\* a Vec<u8> as a function of the position, from 0
FromSeq(s) == [p \in 0..(Len(s) - 1) |-> s[p + 1]]
Size(d) == Cardinality(DOMAIN d)

\* u32::to_le_bytes, for writing the files read here
U32Bytes(v) == << v % 256, (v \div 256) % 256, (v \div 65536) % 256, v \div 16777216 >>
\* nom's le_u32 on the four bytes at off
LeU32(d, off) == d[off] + 256 * d[off + 1] + 65536 * d[off + 2] + 16777216 * d[off + 3]

\* FileHeader::parse at offset 0: the magic, the version, GMKrypt (_s1,
\* _s2 with _s1 * 4 bytes skipped after it, seed with _s2 * 4 bytes skipped
\* after it); `start` is what parse_offset returns as the bytes consumed
FileHeader(d) ==
    LET s1 == LeU32(d, 8)
        s2 == LeU32(d, 12)
        seed_at == 16 + 4 * s1
        start == seed_at + 4 + 4 * s2
    IN  IF Size(d) < 4 THEN [ok |-> FALSE]
        ELSE IF LeU32(d, 0) # GmkMagic THEN [ok |-> FALSE]
        ELSE IF Size(d) < 16 THEN [ok |-> FALSE]
        ELSE IF Size(d) < start THEN [ok |-> FALSE]
        ELSE [ok |-> TRUE, seed |-> LeU32(d, seed_at), start |-> start]

\* a swap index that also reaches position 0
SwapIndexFromZero(i, a, b) == (i * a + b) % 255

\* generate_decode_table: the position the i-th swap exchanges with the next
SwapIndex(i, a, b) == 1 + ((i * a + b) % 254)

\* <[u8]>::swap(j, j + 1)
Swap(t, j) == [t EXCEPT ![j] = t[j + 1], ![j + 1] = t[j]]

\* the swaps number lo..hi applied to t, in order: the first half of them,
\* then the second half on what the first half left (unchanged or not)
RECURSIVE Swapped(_, _, _, _, _)
Swapped(t, lo, hi, a, b) ==
    IF lo > hi THEN t
    ELSE IF lo = hi THEN Swap(t, SwapIndex(lo, a, b))
    ELSE LET half == Swapped(t, lo, (lo + hi) \div 2, a, b)
         IN  IF half = t
             THEN Swapped(t, (lo + hi) \div 2 + 1, hi, a, b)
             ELSE Swapped(half, (lo + hi) \div 2 + 1, hi, a, b)

\* generate_decode_table's encode_table: the identity, then the swaps
EncodeTable(seed) ==
    Swapped([i \in Bytes |-> i], 1, SwapCount, 6 + (seed % 250), seed \div 250)

\* generate_decode_table's table: zeroes, then table[encode_table[i]] = i
\* for i = 1..255 in turn (the last write to an entry stays)
DecodeTable(enc) ==
    [b \in Bytes |->
        LET hits == { i \in 1..(TableSize - 1) : enc[i] = b }
        IN  IF hits = {} THEN 0 ELSE CHOOSE i \in hits : \A k \in hits : k <= i]

\* a decoding loop that starts at `start`
DecodePositionsFromStart(start, len) == start..(len - 1)

\* parse's decoding loop: `for pos in (start + 1)..data.len()`
DecodePositions(start, len) == (start + 1)..(len - 1)

\* decode_table[data[pos]].wrapping_sub((pos % 256) as u8)
DecodeByte(table, byte, pos) == ((table[byte] - (pos % 256)) + 256) % 256

\* the data after the decoding loop
Decoded(d, table, start) ==
    [p \in DOMAIN d |->
        IF p \in DecodePositions(start, Size(d)) THEN DecodeByte(table, d[p], p) ELSE d[p]]

\* the files read: headers with and without skipped blocks (one puts the
\* payload at position 256), a few seeds, every short payload over a few
\* bytes; and a file that is no project, and one cut short
Seeds == {0, 249, 251, 1000003}
Layouts == { << 0, 0 >>, << 0, 1 >>, << 59, 0 >> }
PayloadBytes == {1, 255}
Payloads == UNION { [1..n -> PayloadBytes] : n \in 0..MaxPayload }
RECURSIVE Skipped(_)
Skipped(n) == IF n = 0 THEN << >> ELSE << 171, 205, 239, 1 >> \o Skipped(n - 1)
FileOf(magic, layout, seed, payload) ==
    FromSeq(U32Bytes(magic) \o U32Bytes(530) \o U32Bytes(layout[1]) \o U32Bytes(layout[2])
            \o Skipped(layout[1]) \o U32Bytes(seed) \o Skipped(layout[2]) \o payload)
Files ==
    { FileOf(GmkMagic, layout, seed, payload) : layout \in Layouts, seed \in Seeds, payload \in Payloads }
    \cup { FileOf(GmkMagic + 1, << 0, 0 >>, 0, << 1 >>), FromSeq(SubSeq(U32Bytes(GmkMagic), 1, 3)),
           FromSeq(U32Bytes(GmkMagic) \o U32Bytes(530) \o U32Bytes(2) \o U32Bytes(0) \o Skipped(1)) }

InitFile ==
    /\ Unstarted
    /\ data \in Files
    /\ cipher = data
    /\ header = [at |-> "read"]
    /\ encode_table = << >>
    /\ decode_table = << >>
    /\ input = << >>
    /\ parsed = [at |-> "none"]
    /\ NoText

\* what reading the file never changes
fileFixed == << globalVars, roomVars, phase, stack, histVars, budgetVars, scriptVars,
                objectVars, loadVars, last_op, cipher, parseVars, textVars >>

\* parse_offset::<FileHeader>(&data, 0): a parse error panics
ParseFileHeader ==
    /\ ~panicked /\ header.at = "read"
    /\ IF FileHeader(data).ok
       THEN /\ header' = [at |-> "table", seed |-> FileHeader(data).seed,
                          start |-> FileHeader(data).start]
            /\ UNCHANGED panicked
       ELSE panicked' = TRUE /\ UNCHANGED header
    /\ UNCHANGED << fileFixed, data, encode_table, decode_table >>

\* generate_decode_table(header.crypt.seed)
GenerateDecodeTable ==
    /\ ~panicked /\ header.at = "table"
    /\ encode_table' = EncodeTable(header.seed)
    /\ decode_table' = DecodeTable(encode_table')
    /\ header' = [header EXCEPT !.at = "decode"]
    /\ UNCHANGED << fileFixed, data, panicked >>

\* the decoding loop of parse
Decode ==
    /\ ~panicked /\ header.at = "decode"
    /\ data' = Decoded(data, decode_table, header.start)
    /\ header' = [header EXCEPT !.at = "content"]
    /\ UNCHANGED << fileFixed, encode_table, decode_table, panicked >>

NextFile == ParseFileHeader \/ GenerateDecodeTable \/ Decode

SpecFile == InitFile /\ [][NextFile]_vars

(***************************************************************************)
(* The resource bodies of the decoded file: Sprite, Background, Object and *)
(* Object's event map (gmk-file/src/lib.rs). The data is read as           *)
(* little-endian 32-bit words.                                             *)
(***************************************************************************)
\* events in one object body
MaxEvents == 2

\* EventTypeId and the ids StepEventId, Key, OtherEventId and DrawEventId
\* convert from (TryFromPrimitive)
EventTypeIds == 0..11
StepEventIds == {0, 1, 2}
Keys == {0, 1, 8, 9, 13, 16, 17, 18, 27} \cup (32..40) \cup {45, 46} \cup (48..57)
        \cup (65..90) \cup (96..122)
OtherEventIds == (0..25) \cup {30} \cup (40..47) \cup (50..57) \cup {60, 61}
DrawEventIds == {0, 60, 65} \cup (72..77)

Converted(id) == [ok |-> TRUE, id |-> id]
Panicked(message) == [ok |-> FALSE, panic |-> message]

\* impl From<(i32, i32)> for EventId
EventIdFrom(type_id, event_id) ==
    CASE type_id = 0 ->
           IF event_id = 0 THEN Converted(<< "Create" >>) ELSE Panicked("invalid create event id")
      [] type_id = 1 ->
           IF event_id = 0 THEN Converted(<< "Destroy" >>) ELSE Panicked("invalid destroy event id")
      [] type_id = 2 -> Converted(<< "Alarm", event_id >>)
      [] type_id = 3 ->
           IF event_id \in StepEventIds
           THEN Converted(<< "Step", event_id >>) ELSE Panicked("invalid step event id")
      [] type_id = 4 -> Converted(<< "Collision", event_id >>)
      [] type_id = 5 ->
           IF event_id \in Keys
           THEN Converted(<< "Keyboard", event_id >>) ELSE Panicked("unknown keyboard key")
      [] type_id = 6 -> Converted(<< "Mouse", event_id >>)
      [] type_id = 7 ->
           IF event_id \in OtherEventIds
           THEN Converted(<< "Other", event_id >>) ELSE Panicked("invalid other event id")
      [] type_id = 8 ->
           IF event_id \in DrawEventIds
           THEN Converted(<< "Draw", event_id >>) ELSE Panicked("invalid draw event id")
      [] type_id = 9 ->
           IF event_id \in Keys
           THEN Converted(<< "KeyPress", event_id >>) ELSE Panicked("unknown keypres key")
      [] type_id = 10 ->
           IF event_id \in Keys
           THEN Converted(<< "KeyRelease", event_id >>) ELSE Panicked("unknown keyrelease key")
      [] type_id = 11 -> Converted(<< "Trigger", event_id >>)
      [] OTHER -> Panicked("unknown event type id")

\* BTreeMap::insert
Inserted(map, id, event) == { e \in map : e.id # id } \cup { [id |-> id, event |-> event] }

\* the fields Sprite::parse reads for a body of version ver, in order
SpriteFields(ver) ==
    << "ver", "size", "bbox_left", "bbox_right", "bbox_bottom", "bbox_top", "transparent" >>
    \o (IF ver = 542 THEN << "smooth_edges", "preload_texture" >> ELSE << >>)
    \o << "bbox", "precise_collision" >>
    \o (IF ver = 400 THEN << "use_video_memory", "on_demand" >> ELSE << >>)
    \o << "origin", "subimages" >>

\* the fields Background::parse reads for a body of version ver, in order
BackgroundFields(ver) ==
    << "ver", "size", "transparent" >>
    \o (IF ver = 400 THEN << "use_video_memory", "on_demand" >> ELSE << >>)
    \o (IF ver = 543 THEN << "smooth_edges", "preload_texture" >> ELSE << >>)
    \o (IF ver >= 543 THEN << "tiling" >> ELSE << >>)
    \o << "image_exists" >>

\* the fields Object::parse reads before the event map, whatever ver is
ObjectFields(ver) ==
    << "ver", "sprite_index", "solid", "visible", "depth", "persistent",
       "parent_object_index", "mask_sprite_index" >>

\* words a field takes: U32x2 and I32x2 are two, BackgroundTiling is a
\* Bool32 and three U32x2, every other field here is one
FieldWords(name) ==
    IF name \in {"size", "origin"} THEN 2 ELSE IF name = "tiling" THEN 7 ELSE 1
RECURSIVE Words(_)
Words(fields) == IF fields = << >> THEN 0 ELSE FieldWords(Head(fields)) + Words(Tail(fields))

Drop(s, n) == SubSeq(s, n + 1, Len(s))

\* the bodies read: sprites and backgrounds of the versions the parsers
\* name and of two they do not, with every flag off and no image; objects
\* with up to MaxEvents events of any type and id
SpriteVersions == {400, 542, 800, 0}
BackgroundVersions == {400, 543, 710, 0}
EventIds == {0, 2, 3, 37}
EventPairs == (0..12) \X EventIds
RECURSIVE EventSetsOf(_)
EventSetsOf(n) ==
    IF n = 0 THEN { {} }
    ELSE EventSetsOf(n - 1) \cup { S \cup {p} : S \in EventSetsOf(n - 1), p \in EventPairs }
EventSets == EventSetsOf(MaxEvents)
RECURSIVE Zeros(_)
Zeros(n) == IF n = 0 THEN << >> ELSE << 0 >> \o Zeros(n - 1)
RECURSIVE Ascending(_)
Ascending(S) ==
    IF S = {} THEN << >>
    ELSE LET m == CHOOSE x \in S : \A y \in S : x <= y
         IN  << m >> \o Ascending(S \ {m})
RECURSIVE EventWords(_, _)
EventWords(ids, k) ==
    IF k > Len(ids) THEN << -1 >> ELSE << ids[k], 400, 0 >> \o EventWords(ids, k + 1)
RECURSIVE TypeWords(_, _, _)
TypeWords(S, type_id, max) ==
    IF type_id > max THEN << >>
    ELSE EventWords(Ascending({ p[2] : p \in { q \in S : q[1] = type_id } }), 1)
         \o TypeWords(S, type_id + 1, max)
MaxType(S) == IF S = {} THEN -1 ELSE CHOOSE t \in { p[1] : p \in S } : \A p \in S : p[1] <= t
ObjectInputs ==
    { << 430, 0, 0, 1, 0, 0, -1, -1, max >> \o TypeWords(S, 0, max) :
        S \in EventSets, max \in {-1, 11, 12} }
BodyInputs(kind) ==
    CASE kind = "Sprite" -> { << ver >> \o Zeros(16) : ver \in SpriteVersions }
      [] kind = "Background" -> { << ver >> \o Zeros(12) : ver \in BackgroundVersions }
      [] kind = "Object" -> { w \in ObjectInputs : w[9] >= -1 }

InitParse ==
    /\ Unstarted
    /\ data = << >>
    /\ cipher = << >>
    /\ header = [at |-> "content"]
    /\ encode_table = << >>
    /\ decode_table = << >>
    /\ \E kind \in {"Sprite", "Background", "Object"} :
         /\ input \in BodyInputs(kind)
         /\ parsed = [at |-> "body", kind |-> kind]
    /\ NoText

\* what parsing a body never changes
parseFixed == << globalVars, roomVars, phase, stack, histVars, budgetVars, scriptVars,
                 objectVars, loadVars, last_op, fileVars, textVars >>

\* a derived parser of a body with the given fields: nom's error when the
\* input ends early or a Bool32 is neither 0 nor 1 (the inputs here have
\* neither), else the fields are read
ParseBody(fields, next) ==
    IF Len(input) < Words(fields)
    THEN /\ parsed' = [at |-> "error", kind |-> parsed.kind, ver |-> input[1], fields |-> << >>]
         /\ UNCHANGED input
    ELSE /\ parsed' = [at |-> next, kind |-> parsed.kind, ver |-> input[1], fields |-> fields]
         /\ input' = Drop(input, Words(fields))

\* Sprite::parse (no sub-images follow)
ParseSprite ==
    /\ ~panicked /\ parsed.at = "body" /\ parsed.kind = "Sprite"
    /\ ParseBody(SpriteFields(input[1]), "done")
    /\ UNCHANGED << parseFixed, panicked >>

\* Background::parse (image_exists is False)
ParseBackground ==
    /\ ~panicked /\ parsed.at = "body" /\ parsed.kind = "Background"
    /\ ParseBody(BackgroundFields(input[1]), "done")
    /\ UNCHANGED << parseFixed, panicked >>

\* Object::parse up to its event map
ParseObject ==
    /\ ~panicked /\ parsed.at = "body" /\ parsed.kind = "Object"
    /\ ParseBody(ObjectFields(input[1]), "events")
    /\ UNCHANGED << parseFixed, panicked >>

\* parse_events: max_event_type is read
ParseEventsBegin ==
    /\ ~panicked /\ parsed.at = "events"
    /\ IF input = << >>
       THEN parsed' = [parsed EXCEPT !.at = "error"] /\ UNCHANGED input
       ELSE /\ parsed' = [at |-> "type", kind |-> parsed.kind, ver |-> parsed.ver,
                          fields |-> parsed.fields, max_event_type |-> Head(input),
                          event_type_id |-> 0, result |-> {}, read |-> << >>]
            /\ input' = Tail(input)
    /\ UNCHANGED << parseFixed, panicked >>

\* parse_events, one turn of the inner loop for event_type_id: the event id
\* is read; -1 ends the type, any other id is converted (EventId::from
\* panics or not) and the Event after it is read (with no actions)
ParseEventsNext ==
    /\ ~panicked /\ parsed.at = "type" /\ parsed.event_type_id <= parsed.max_event_type
    /\ IF input = << >>
       THEN parsed' = [parsed EXCEPT !.at = "error"] /\ UNCHANGED << input, panicked >>
       ELSE IF Head(input) = -1
       THEN /\ parsed' = [parsed EXCEPT !.event_type_id = @ + 1]
            /\ input' = Tail(input)
            /\ UNCHANGED panicked
       ELSE IF ~EventIdFrom(parsed.event_type_id, Head(input)).ok
       THEN /\ panicked' = TRUE
            /\ parsed' = [parsed EXCEPT !.at = "panic",
                            !.read = Append(@, << parsed.event_type_id, Head(input) >>)]
            /\ UNCHANGED input
       ELSE IF Len(input) < 3
       THEN parsed' = [parsed EXCEPT !.at = "error"] /\ UNCHANGED << input, panicked >>
       ELSE /\ parsed' = [parsed EXCEPT
                            !.result = Inserted(@, EventIdFrom(parsed.event_type_id, Head(input)).id,
                                                [ver |-> input[2], actions |-> << >>]),
                            !.read = Append(@, << parsed.event_type_id, Head(input) >>)]
            /\ input' = Drop(input, 3)
            /\ UNCHANGED panicked
    /\ UNCHANGED parseFixed

\* parse_events after the last type: Ok((input2, result))
ParseEventsEnd ==
    /\ ~panicked /\ parsed.at = "type" /\ parsed.event_type_id > parsed.max_event_type
    /\ parsed' = [parsed EXCEPT !.at = "done"]
    /\ UNCHANGED << parseFixed, input, panicked >>

NextParse ==
    \/ ParseSprite \/ ParseBackground \/ ParseObject
    \/ ParseEventsBegin \/ ParseEventsNext \/ ParseEventsEnd

SpecParse == InitParse /\ [][NextParse]_vars

(***************************************************************************)
(* Properties.                                                             *)
(***************************************************************************)
LogIdx == 1..Len(log)
IsRun(i, ev, id) == log[i].k = "run" /\ log[i].ev = ev /\ log[i].id = id
\* log entries: instance_destroy() on the receiver itself, called by a
\* handler of the StepNormal dispatch
SelfDestroys ==
    { i \in LogIdx : /\ log[i].k = "destroy" /\ log[i].ev = "StepNormal"
                     /\ log[i].via = "dispatch" /\ log[i].arg = log[i].id }
\* Room::step is past the StepNormal dispatch (and its cleanup) of the sub-tick
StepNormalPassOver ==
    /\ stack # << >> /\ stack[1].op = "step"
    /\ stack[1].ev = "while" \/ (stack[1].ev = "end" /\ Len(stack) = 1)
\* Room::step is past the StepEnd dispatch of the sub-tick
SubTickOver == ~panicked /\ Len(stack) = 1 /\ stack[1].op = "step" /\ stack[1].ev = "while"
\* the Room::dispatch passes that are running
PassFrames == { k \in 1..Len(stack) : stack[k].op = "dispatch" }
\* log entries: instance_create calls made since pass f started
CreatesInPass(f) == { i \in (f.n + 1)..Len(log) : log[i].k = "create" }
PlacementIds(r) == { Placements(r)[k].id : k \in 1..Len(Placements(r)) }
AllPlacementIds == UNION { PlacementIds(r) : r \in Rooms }
LiveOfType(oi) == { id \in Range(object_instances) : instances[id].object_index = oi }

\* C1 (as the code has it): when instance A calls instance_destroy() on
\* itself in a handler of the StepNormal dispatch, the cleanup that ends
\* that dispatch removes A from the live instances and runs A's Destroy
\* handler before the StepEnd dispatch starts: A's StepEnd handler does not
\* run in that sub-tick, and A is in no later dispatch pass of the room.
C1_DestroyedBeforeStepEnd ==
    /\ \A i \in SelfDestroys :
         /\ \A j \in LogIdx : ~IsRun(j, "StepEnd", log[i].id)
         /\ StepNormalPassOver =>
              /\ log[i].id \notin Range(object_instances)
              /\ log[i].id \in hist_removed
              /\ \E j \in LogIdx : j > i /\ IsRun(j, "Destroy", log[i].id) /\ log[j].via = "cleanup"
    /\ hist_removed \cap (Range(object_instances) \cup added_instances) = {}
    /\ \A k \in PassFrames : hist_removed \cap Range(stack[k].todo) = {}

\* C1 witness: a sub-tick is over in which an instance destroyed itself in
\* StepNormal, its Destroy handler ran, and another instance ran StepEnd
C1_Witness ==
    /\ SubTickOver
    /\ \E i \in SelfDestroys :
         /\ \E j \in LogIdx : IsRun(j, "Destroy", log[i].id)
         /\ \E j \in LogIdx : log[j].k = "run" /\ log[j].ev = "StepEnd" /\ log[j].id # log[i].id

\* C1 as the spec states it: A's StepEnd handler still runs in the sub-tick
\* in which A destroyed itself during StepNormal
C1_StepEndStillRuns ==
    SubTickOver => \A i \in SelfDestroys : \E j \in LogIdx : j > i /\ IsRun(j, "StepEnd", log[i].id)

\* C2 as the spec states it: the handlers of one dispatch pass run in the
\* order their instances were inserted (for placed instances: the order of
\* the room definition, which is ascending id in this project)
C2_InsertionOrder ==
    \A i, j \in LogIdx :
        ( /\ i < j
          /\ log[i].k = "run" /\ log[j].k = "run"
          /\ log[i].via = "dispatch" /\ log[j].via = "dispatch"
          /\ log[i].ev = log[j].ev
          /\ room_def # NoRoom
          /\ {log[i].id, log[j].id} \subseteq PlacementIds(room_def) )
        => log[i].id < log[j].id

GotoKinds == {"goto", "goto_next"}
\* the room a logged room_goto / room_goto_next call asked for
GotoTarget(e) == IF e.k = "goto" THEN e.arg ELSE RoomOrder[e.arg + 1]
GotoCalls == { i \in LogIdx : log[i].k \in GotoKinds }

\* C4: a room_goto or room_goto_next call made by a handler leaves the room
\* (definition, live instances, deferred sets) as it is and only records its
\* target as the pending room; the room is replaced only by the driver's
\* boot or cleanup() call, and cleanup() goes to the target of the last call.
C4_RoomChangeDeferred ==
    [][ /\ (calls' # calls /\ log'[Len(log')].k \in GotoKinds)
            => /\ roomVars' = roomVars
               /\ ~panicked' => /\ next_room_index' = GotoTarget(log'[Len(log')])
                                /\ last_goto' = next_room_index'
        /\ room_def' # room_def => stack = << >> /\ phase \in {"boot", "cleanup"}
        /\ (Idle("cleanup") /\ last_goto # NoRoom)
            => /\ room_def' = last_goto
               /\ Range(object_instances') = PlacementIds(last_goto)
               /\ next_room_index' = NoRoom
      ]_vars

\* C4 witness: the frame's cleanup() has loaded room 1 after the handlers of
\* the frame's draw asked for room 0 and then for room 1
C4_Witness ==
    /\ ~panicked /\ phase = "input" /\ room_def = 1
    /\ \E i, j \in GotoCalls :
         /\ i < j /\ GotoTarget(log[i]) = 0 /\ GotoTarget(log[j]) = 1
         /\ \A m \in GotoCalls : m <= j

\* an Alarm(i) dispatch of instance id is due in Instance::step's loop
AlarmPending(id, i) ==
    \E k \in 1..Len(stack) : stack[k].op = "alarms" /\ stack[k].id = id /\ i \in Range(stack[k].todo)

C6_AllocatedIdsFresh ==
    /\ (script_instances \cup hist_created) \cap AllPlacementIds = {}
    /\ script_instances \cap (Range(object_instances) \cup added_instances) = {}

\* C7 as the spec states it: when a cleanup() call of the driver is over,
\* each object type's instance set is the set of live instances of that
\* type, and instance_number is their count
C7_TypeSetsInSync ==
    (Idle("input") /\ frames >= 1)
    => \A oi \in ObjectTypes :
         /\ type_instances[oi] = LiveOfType(oi)
         /\ InstanceNumber(oi) = Cardinality(LiveOfType(oi))

\* C8 as the spec states it: a host-function call made while a dispatch pass
\* runs leaves the live map, the object types' instance sets and the
\* room-order position as they are
C8_OnlyDeferredSetsMutated ==
    [][ (calls' # calls /\ PassFrames # {})
        => UNCHANGED << object_instances, type_instances, room_order_index >> ]_vars

\* C9 as the spec states it: no host-function call of a handler aborts on a
\* borrow conflict (the one abort left is room_goto_next past the room order)
C9_NoBorrowConflict ==
    panicked => log[Len(log)].k = "goto_next"

\* C10 as the spec states it: when a script called from a script finishes
\* (end, exit or return) the caller's locals are what they were at the call
C10_CallerLocalsRestored ==
    hist_call.how # "none" => hist_call.after = hist_call.before

C17_OneBasedCharAt ==
    ( /\ last_op.fn = "string_char_at"
      /\ last_op.args[1].t = "String" /\ last_op.args[2].t = "Int"
      /\ last_op.args[2].n \in 1..Len(last_op.args[1].s) )
    => last_op.result = Ok(ValueInt(last_op.args[1].s[last_op.args[2].n]))

\* an instance of the room's live map is left as it was by the step
InstanceUnchanged(i) ==
    instances'[i] = instances[i] /\ inst_state'[i] = inst_state[i] /\ inst_vars'[i] = inst_vars[i]

\* C12 as the spec states it: every assignment to a published constant
\* name, written `global.name` or as a bare `name`, fails with
\* AssignToValue and leaves the value scripts read for that name unchanged
C12_ConstWritesFail ==
    [][ \A name \in ConstNames :
          (last_op'.fn \in {"assign", "assign_global"} /\ last_op'.name = name)
          => /\ last_op'.result = Err("AssignToValue")
             /\ (Len(ctx_instance') = Len(ctx_instance) => VarValues(name)' = VarValues(name))
             /\ GlobalVarValue(name)' = GlobalVarValue(name) ]_vars

\* C13 as the spec states it: on an instance, a write of one of the
\* structured names goes to the structured field, not to the free-form
\* variable map, and a read after the write returns the value the field
\* holds (after hspeed = 7, reading hspeed yields 7, not Undefined)
C13_StructuredNamesRouted ==
    \A name \in StructuredNames \ {"alarm", "image_single"} :
        ( /\ last_op.fn = "assign" /\ last_op.name = name /\ last_op.result.ok
          /\ Receiver.kind = "Instance" /\ name \notin DOMAIN ctx_locals )
        => /\ name \notin DOMAIN inst_vars[Receiver.id]
           /\ \A r \in VarValues(name) :
                /\ r.t # "Undefined"
                /\ IF name = "visible" THEN ToBool(r) = ToBool(last_op.value)
                   ELSE ToInt(r) = ToInt(last_op.value)

\* C19 as the spec states it: `with (id) body` run by receiver A makes the
\* instance whose id is `id` the receiver of the body, bare-name writes of
\* the body go to that instance and leave every other instance (A too) as
\* it was, and after the statement the receiver is A again
C19_WithRebindsReceiver ==
    [][ /\ (last_op'.fn = "with" /\ last_op'.value.n \in Range(object_instances))
           => ctx_instance' = Append(ctx_instance, [kind |-> "Instance", id |-> last_op'.value.n])
        /\ \A name \in {"x"} \cup FreeNames :
             ( /\ last_op'.fn = "assign" /\ last_op'.name = name /\ last_op'.result.ok
               /\ Len(ctx_instance) > 1 /\ Receiver.kind = "Instance"
               /\ name \notin DOMAIN ctx_locals )
             => /\ InstanceMember(Receiver.id, name)' # None
                /\ ToInt(InstanceMember(Receiver.id, name)') = ToInt(last_op'.value)
                /\ \A i \in Range(object_instances) \ {Receiver.id} : InstanceUnchanged(i)
        /\ last_op'.fn = "with_end" => ctx_instance = Append(ctx_instance', Receiver) ]_vars

\* C20: in an instance, `name[index] = value` (index >= 0) on a free-form
\* name whose value is Undefined allocates a fresh Array under a new id in
\* the room's script-instance table, stores that id back into the name and
\* puts the value in the array: reading name[index] then yields the value
\* and reading any other index yields Undefined (`foo[3] = 7`: foo[3] is
\* Int(7), foo[0] is Undefined).
C20_ArrayAutovivification ==
    [][ \A name \in FreeNames :
          ( /\ last_op'.fn = "assign_index" /\ last_op'.name = name /\ last_op'.index >= 0
            /\ VarValues(name) = { ValueUndefined } /\ Receiver.kind = "Instance" )
          => /\ last_op'.result.ok
             /\ last_instance_id \notin script_instances \cup Range(object_instances) \cup ObjectTypes
             /\ script_instances' = script_instances \cup { last_instance_id }
             /\ script_objects'[last_instance_id].kind = "Array"
             /\ VarValues(name)' = { ValueInt(last_instance_id) }
             /\ \A i \in 0..(last_op'.index + 1) :
                  IndexValues(name, i)' =
                    { IF i = last_op'.index THEN Ok(last_op'.value) ELSE Ok(ValueUndefined) } ]_vars

\* C20 witness: an instance has run `foo[3] = 7` on an Undefined foo; foo
\* now names an Array, foo[3] reads Int(7) and foo[0] reads Undefined
C20_Witness ==
    /\ last_op.fn = "assign_index" /\ last_op.name = "foo" /\ last_op.index = 3
    /\ last_op.value = ValueInt(7) /\ last_op.result.ok
    /\ Receiver.kind = "Instance" /\ "foo" \in DOMAIN inst_vars[Receiver.id]
    /\ \E v \in VarValues("foo") : v.t = "Int" /\ ObjectOf(v.n).kind = "Array"
    /\ IndexValues("foo", 3) = { Ok(ValueInt(7)) }
    /\ IndexValues("foo", 0) = { Ok(ValueUndefined) }

\* C14: executing a Variable(name, expr) action evaluates the action's
\* value expression (the second argument, not the variable name) for the
\* receiver and assigns the result to the receiver's member `name`.
C14_VariableActionAssignsExpr ==
    [][ \A k \in 1..MaxActions : \A name \in ActionNames :
          ( /\ phase = "input" /\ pc = k /\ last_op'.fn = "action" /\ last_op'.index = k
            /\ last_op'.kind = "SetVariable" /\ last_op'.name = name /\ last_op'.result.ok )
          => \E value \in EvalExpr(ParseExpr(content.actions[k].argument_values[2])) :
               /\ InstanceMember(ctx_instance[1].id, name)' # None
               /\ ToInt(InstanceMember(ctx_instance[1].id, name)') = ToInt(value) ]_vars

\* C15: a script-level runtime error raised by any action of an event (Code,
\* execute-script or Variable) is logged and does not terminate the
\* process: the action is aborted and the event goes on to its next action.
C15_ActionErrorsLogged ==
    [][ ( /\ phase = "input" /\ last_op' # last_op
          /\ last_op'.fn = "action" /\ ~last_op'.result.ok )
        => /\ ~panicked'
           /\ stderr' = Append(stderr, last_op'.result.error)
           /\ pc' = pc + 1 ]_vars

\* C16: a script resource or Code action whose source fails to parse does
\* not abort the project load: the load completes, that script is a no-op
\* and every other script and action is as its source says.
C16_ParseFailureNotFatal ==
    /\ phase \in {"define_objects", "define_scripts"} => ~panicked
    /\ phase \in {"boot", "input"} =>
         /\ \A k \in 1..Len(content.scripts) :
              scripts.values[k - 1] =
                IF content.scripts[k].parses THEN content.scripts[k].stmts ELSE << >>
         /\ Len(event_actions) = Len(content.actions)
         /\ \A k \in 1..Len(content.actions) :
              content.actions[k].kind = "Code" =>
                event_actions[k].script =
                  IF content.actions[k].argument_values[1].parses
                  THEN content.actions[k].argument_values[1].stmts ELSE << >>

\* C18: once define_consts has run, and so before any script runs, every
\* published key name, vk_nokey to vk_divide and vk_f1 to vk_f12, is bound
\* in consts to its key code, and a script that reads it gets that code.
C18_KeyConstsBound ==
    \A name \in DOMAIN (KeyConsts @@ FunctionKeys) :
      /\ phase # "define_consts" =>
           name \in DOMAIN consts /\ consts[name] = ValueInt((KeyConsts @@ FunctionKeys)[name])
      /\ (phase = "input" /\ ~panicked) =>
           VarValues(name) = { ValueInt((KeyConsts @@ FunctionKeys)[name]) }

\* the object's parent chain, the object itself first
RECURSIVE ParentChain(_)
ParentChain(oi) ==
    IF ParentIndex(oi) = NoParent THEN << oi >> ELSE << oi >> \o ParentChain(ParentIndex(oi))
\* the positions of the chain whose object definition contains the event
Definers(oi, ev) == { k \in 1..Len(ParentChain(oi)) : ev \in ObjEvents(ParentChain(oi)[k]) }
\* no later member of the log is a run: the entry a dispatch just added
NewRun ==
    /\ Len(log') > 0 /\ log' # log
    /\ log'[Len(log')].k = "run"
    /\ Len(stack') > 0

\* C21: dispatching an event to an instance runs the action list of the
\* nearest object of its parent chain (its own object first) whose
\* definition contains the event, with the instance itself as receiver;
\* when no object of the chain defines the event nothing runs.
C21_NearestAncestorHandles ==
    [][ /\ NewRun =>
             LET e == log'[Len(log')]
                 oi == instances'[e.id].object_index
             IN  /\ Definers(oi, e.ev) # {}
                 /\ \E k \in Definers(oi, e.ev) :
                      /\ e.arg = ParentChain(oi)[k]
                      /\ \A j \in Definers(oi, e.ev) : k <= j
                 /\ stack'[Len(stack')].op = "handler"
                 /\ stack'[Len(stack')].id = e.id
                 /\ stack'[Len(stack')].ev = e.ev
        /\ ( /\ FrameIs("dispatch") /\ Top.todo # << >>
             /\ Definers(instances[Head(Top.todo)].object_index, Top.ev) = {} )
           => /\ log' = log
              /\ stack' = [stack EXCEPT ![Len(stack)].todo = Tail(@)]
              /\ UNCHANGED << globalVars, roomVars >>
        /\ ( /\ FrameIs("dispatch") /\ Top.todo # << >>
             /\ Definers(instances[Head(Top.todo)].object_index, Top.ev) # {} )
           => /\ NewRun
              /\ log'[Len(log')].id = Head(Top.todo)
              /\ log'[Len(log')].ev = Top.ev ]_vars

\* C21 witness: an instance of the child object (object 1, whose parent is
\* object 0) runs the Create actions only the parent defines, as receiver
C21_Witness ==
    /\ FrameIs("handler") /\ Top.ev = "Create"
    /\ instances[Top.id].object_index = 1
    /\ "Create" \notin ObjEvents(1) /\ "Create" \in ObjEvents(ParentIndex(1))
    /\ log[Len(log)] = [k |-> "run", ev |-> "Create", id |-> Top.id, arg |-> 0, via |-> Top.via]

\* what the globals hold for a name: a script's index, a constant, a global
\* variable, else nothing
GlobalsHave(name) ==
    name \in DOMAIN scripts.names \cup DOMAIN consts \cup DOMAIN global_vars
GlobalsValue(name) ==
    IF name \in DOMAIN scripts.names THEN ValueInt(scripts.names[name])
    ELSE IF name \in DOMAIN consts THEN consts[name]
    ELSE global_vars[name]

\* C22: reading a bare name yields the script local of that name if there
\* is one, else the receiver's member of that name if it has one, else the
\* global of that name, else Undefined, and never fails; reading
\* `global.name` yields the global of that name or Undefined, whatever the
\* locals and the receiver hold.
C22_ReadResolution ==
    [][ \A name \in ReadNames :
          /\ (last_op'.fn = "read" /\ last_op'.name = name) =>
               /\ last_op'.result.ok
               /\ IF name \in DOMAIN ctx_locals THEN last_op'.value = ctx_locals[name]
                  ELSE \E m \in ObjectMember(Receiver, name) :
                         IF m # None THEN last_op'.value = m
                         ELSE IF GlobalsHave(name) THEN last_op'.value = GlobalsValue(name)
                         ELSE last_op'.value = ValueUndefined
          /\ (last_op'.fn = "read_global" /\ last_op'.name = name) =>
               /\ last_op'.result.ok
               /\ last_op'.value = IF GlobalsHave(name) THEN GlobalsValue(name) ELSE ValueUndefined ]_vars

\* C22 witness: a script that ran `foo = 7; var foo;` reads foo: the
\* receiver holds 7, the locals hold Undefined, and the read yields the local
C22_Witness ==
    /\ last_op.fn = "read" /\ last_op.name = "foo"
    /\ Receiver.kind = "Instance"
    /\ "foo" \in DOMAIN ctx_locals /\ "foo" \in DOMAIN inst_vars[Receiver.id]
    /\ inst_vars[Receiver.id]["foo"] = ValueInt(7)
    /\ ctx_locals["foo"] = ValueUndefined
    /\ last_op.value = ValueUndefined

\* C23: writing a bare name sets the script local exactly when the locals
\* already have an entry of that name, as `var name;` makes with the value
\* Undefined, and otherwise goes to the receiver; the globals never change.
C23_WriteResolution ==
    [][ \A name \in FreeNames \cup {"x"} :
          /\ (last_op'.fn = "var" /\ last_op'.name = name) =>
               /\ ctx_locals' = SetMember(ctx_locals, name, ValueUndefined)
               /\ UNCHANGED << instances, inst_state, inst_vars, script_objects, global_vars, consts >>
          /\ (last_op'.fn = "assign" /\ last_op'.name = name) =>
               /\ UNCHANGED << global_vars, consts >>
               /\ IF name \in DOMAIN ctx_locals
                  THEN /\ ctx_locals' = [ctx_locals EXCEPT ![name] = last_op'.value]
                       /\ UNCHANGED << instances, inst_state, inst_vars, script_objects >>
                  ELSE /\ ctx_locals' = ctx_locals
                       /\ Receiver.kind = "Instance" =>
                            /\ last_op'.result.ok
                            /\ InstanceMember(Receiver.id, name)' # None
                            /\ ToInt(InstanceMember(Receiver.id, name)') = ToInt(last_op'.value) ]_vars

\* C23 witness: after `var foo; foo = 7;` the local foo is 7 and the
\* receiver has no foo
C23_Witness ==
    /\ last_op.fn = "assign" /\ last_op.name = "foo" /\ last_op.value = ValueInt(7)
    /\ Receiver.kind = "Instance"
    /\ "foo" \in DOMAIN ctx_locals /\ ctx_locals["foo"] = ValueInt(7)
    /\ "foo" \notin DOMAIN inst_vars[Receiver.id]

\* C24: for the binary operators -, *, / and %, every operation with a
\* String operand fails with InvalidOperands, except Int * String and
\* Float * String, which repeat the string max(0, n) times.
C24_StringOperandsFail ==
    ( /\ last_op.fn \in {"sub", "mul", "div", "rem"}
      /\ last_op.args[1].t = "String" \/ last_op.args[2].t = "String" )
    => IF last_op.fn = "mul" /\ last_op.args[1].t \in {"Int", "Float"}
       THEN /\ last_op.result.ok
            /\ last_op.result.value.t = "String"
            /\ Len(last_op.result.value.s)
                 = Len(last_op.args[2].s) * (IF last_op.args[1].n < 0 THEN 0 ELSE last_op.args[1].n)
            /\ \A k \in 1..Len(last_op.result.value.s) :
                 last_op.result.value.s[k]
                   = last_op.args[2].s[((k - 1) % Len(last_op.args[2].s)) + 1]
       ELSE last_op.result = Err("InvalidOperands")

\* the cleanup of the room finishes with this step: the drain is over and
\* added_instances is merged into the live map
CleanupFinishes == FrameIs("cleanup") /\ Top.todo = << >> /\ stack' = Pop

\* the cleanup ends the Create pass of a room loaded in this driver call (the
\* log may still hold calls made in the room it replaced)
RoomJustLoaded == phase = "input" /\ Top.via = "dispatch"

\* C29 as stated: once a cleanup of the room has finished, no instance on
\* which instance_destroy was called before it (in this driver call, in this
\* room) is in the live map, also not one that was destroyed while it was
\* still only in added_instances
C29_DestroyedGoneAfterCleanup ==
    [][ (CleanupFinishes /\ ~RoomJustLoaded) =>
          \A i \in LogIdx : log[i].k = "destroy" => log[i].arg \notin Range(object_instances') ]_vars

\* the Destroy handlers Room::cleanup is running
CleanupDestroyFrames ==
    { k \in 1..Len(stack) : stack[k].op = "handler" /\ stack[k].ev = "Destroy" /\ stack[k].via = "cleanup" }

\* C30 as stated: while the Destroy handler that cleanup dispatched runs, its
\* instance is in neither the live map nor its object type's set, so
\* instance_number of its type does not count it
C30_RemovedFromBothBeforeDestroy ==
    \A k \in CleanupDestroyFrames :
        LET id == stack[k].id
            oi == instances[id].object_index
        IN  /\ id \notin Range(object_instances)
            /\ id \notin type_instances[oi]
            /\ InstanceNumber(oi) = Cardinality(type_instances[oi] \ {id})

\* C25: for every seed, the table generate_decode_table returns is a
\* permutation of 0..255, it is the inverse of the encode table that the
\* swaps made of the identity (encode_table[decode_table[b]] = b for every
\* byte b), and it maps 0 to 0.
C25_DecodeTableInvertsEncodeTable ==
    decode_table # << >> =>
        /\ DOMAIN decode_table = Bytes
        /\ { decode_table[b] : b \in Bytes } = Bytes
        /\ { encode_table[b] : b \in Bytes } = Bytes
        /\ \A b \in Bytes : encode_table[decode_table[b]] = b
        /\ decode_table[0] = 0

\* C25 witness: the tables of seed 1000003 (a = 9, b = 4000) are generated;
\* the swaps moved 71 to position 1, and 1 to position 89
C25_Witness ==
    /\ decode_table # << >>
    /\ header.seed = 1000003
    /\ encode_table[1] = 71 /\ decode_table[71] = 1
    /\ encode_table[89] = 1 /\ decode_table[1] = 89

\* the positions of the file's bytes
Positions == DOMAIN data

\* C26 (as the code has it): decoding replaces every byte at a position p
\* past `start` (the first position after the header) by
\* decode_table[cipher[p]] - (p mod 256) modulo 256 and leaves every byte of
\* the header, and the byte at `start` itself, as it was read.
C26_DecodedPastFirstByte ==
    header.at = "content" =>
        \A p \in Positions :
            IF p > header.start
            THEN data[p] = (decode_table[cipher[p]] + TableSize - (p % TableSize)) % TableSize
            ELSE data[p] = cipher[p]

\* C26 witness: a file whose header ends at position 256 is decoded; the
\* byte at 257 was replaced, the byte at 256 was not (though the table would
\* have changed it)
C26_Witness ==
    /\ header.at = "content"
    /\ header.start = TableSize
    /\ Size(data) > header.start + 2
    /\ data[header.start + 1] # cipher[header.start + 1]
    /\ data[header.start] = cipher[header.start]
    /\ decode_table[cipher[header.start]] # cipher[header.start]

\* C26 as the spec states it: no byte after the header is left undecoded
C26_EveryByteAfterHeaderDecoded ==
    header.at = "content" =>
        \A p \in Positions :
            IF p >= header.start
            THEN data[p] = (decode_table[cipher[p]] + TableSize - (p % TableSize)) % TableSize
            ELSE data[p] = cipher[p]

\* the (type_id, event_id) pairs parse_events has read so far
EventsRead ==
    IF parsed.at \in {"type", "done", "panic"} /\ parsed.kind = "Object" THEN parsed.read ELSE << >>

\* C27 as stated: every (type_id, event_id) pair parse_events reads with a
\* known type id is converted to an EventId and entered in the map; the
\* conversion stops the parse only for an unknown type id
C27_OnlyUnknownTypeFatal ==
    /\ \A k \in 1..Len(EventsRead) :
         EventsRead[k][1] \in EventTypeIds =>
             /\ EventIdFrom(EventsRead[k][1], EventsRead[k][2]).ok
             /\ \E e \in parsed.result :
                  e.id = EventIdFrom(EventsRead[k][1], EventsRead[k][2]).id
    /\ parsed.at = "panic" => parsed.event_type_id \notin EventTypeIds

\* the version constants a body's parser compares ver with
NamedVersions(kind) == IF kind = "Sprite" THEN {400, 542} ELSE {400, 543}

\* C28 as stated: a Sprite or Background body whose version is none of the
\* constants its parser knows is rejected, not parsed with some sub-shape
C28_UnknownVersionRejected ==
    ( /\ parsed.at \notin {"none", "body"}
      /\ parsed.kind \in {"Sprite", "Background"}
      /\ parsed.ver \notin NamedVersions(parsed.kind) )
    => parsed.at = "error"

\* where a logged handler run or Instance::step call belongs in a sub-tick
\* (0: not one of the sub-tick's own stages)
StageOf(e) ==
    IF e.k = "step" THEN 2
    ELSE IF e.k # "run" THEN 0
    ELSE IF e.via = "alarm" THEN 2
    ELSE IF e.via # "dispatch" THEN 0
    ELSE IF e.ev = "StepBegin" THEN 1
    ELSE IF e.ev = "StepNormal" THEN 3
    ELSE IF e.ev = "StepEnd" THEN 4
    ELSE 0
StepCalls(id) == { i \in LogIdx : log[i].k = "step" /\ log[i].id = id }
\* this step starts the Room::dispatch of ev
Dispatches(ev) ==
    /\ Len(stack') = Len(stack) + 1
    /\ stack'[Len(stack')].op = "dispatch" /\ stack'[Len(stack')].ev = ev

\* C31: in every sub-tick the StepBegin handlers run first, then the
\* per-instance steps with the Alarm handlers they fire, then the StepNormal
\* handlers, then the StepEnd handlers; when the StepNormal dispatch starts,
\* Instance::step has been called exactly once for each live instance and
\* for no other; StepEnd is dispatched right after the StepNormal pass and
\* its cleanup, and the sub-tick ends with it.
C31_SubTickOrder ==
    [][ /\ \A i, j \in 1..Len(log') :
             (i < j /\ StageOf(log'[i]) # 0 /\ StageOf(log'[j]) # 0)
                 => StageOf(log'[i]) <= StageOf(log'[j])
        /\ \A id \in DOMAIN instances' : Cardinality({ i \in 1..Len(log') : log'[i].k = "step" /\ log'[i].id = id }) <= 1
        /\ Dispatches("StepBegin") => log' = << >>
        /\ Dispatches("StepNormal") =>
             /\ \A id \in Range(object_instances) : Cardinality(StepCalls(id)) = 1
             /\ \A i \in LogIdx : log[i].k = "step" => log[i].id \in Range(object_instances)
             /\ \A i \in LogIdx : StageOf(log[i]) \in {0, 1, 2}
        /\ Dispatches("StepEnd") => \A i \in LogIdx : StageOf(log[i]) # 4
      ]_vars

\* C31 witness: a sub-tick in which a StepBegin handler ran, then an
\* instance's step fired its alarm, then StepNormal and StepEnd handlers ran
C31_Witness ==
    \E a, b, c, d, e \in LogIdx :
        /\ a < b /\ b < c /\ c < d /\ d < e
        /\ StageOf(log[a]) = 1
        /\ log[b].k = "step"
        /\ log[c].k = "run" /\ log[c].via = "alarm" /\ log[c].id = log[b].id
        /\ StageOf(log[d]) = 3
        /\ StageOf(log[e]) = 4

(***************************************************************************)
(* Global::goto_room: the placements and its dispatch(Create).             *)
(***************************************************************************)
\* goto_room's dispatch(Create) is in progress (it is always the outermost
\* activation: goto_room only gets the room when nothing borrows it)
GotoDispatch == stack # << >> /\ stack[1].op = "dispatch" /\ stack[1].via = "goto"
\* the ids of the placements of the loaded room
Placed == { Placements(room_def)[k].id : k \in 1..Len(Placements(room_def)) }
\* the Create runs goto_room's dispatch has made on instance id
CreateRuns(id) ==
    { i \in LogIdx : /\ i > stack[1].n
                     /\ log[i].k = "run" /\ log[i].ev = "Create"
                     /\ log[i].id = id /\ log[i].via = "dispatch" }

\* C32: while goto_room dispatches Create, the live map holds exactly the
\* placements of the loaded room; before the first event of that dispatch
\* added_instances is empty and nothing has run; every placed instance has
\* had Create exactly once when the dispatch loop has passed it and not at
\* all before, and the loop passes every one of them
C32_PlacementsLiveThenCreated ==
    GotoDispatch =>
      /\ Range(object_instances) = Placed
      /\ Len(object_instances) = Cardinality(Placed)
      /\ Range(stack[1].todo) \subseteq Placed
      /\ (Len(stack) = 1 /\ stack[1].todo = object_instances) =>
            /\ added_instances = {}
            /\ Len(log) = stack[1].n
      /\ \A id \in Placed :
            Cardinality(CreateRuns(id)) = IF id \in Range(stack[1].todo) THEN 0 ELSE 1

\* goto_room's dispatch has passed both placements of room 0, and the Create
\* handler of one of them has made a host call meanwhile
C32_Witness ==
    /\ GotoDispatch /\ stack[1].todo = << >> /\ ~panicked
    /\ Cardinality(Placed) = 2
    /\ \A id \in Placed : Cardinality(CreateRuns(id)) = 1
    /\ \E i \in LogIdx : log[i].k # "run" /\ log[i].k # "step"

(***************************************************************************)
(* Room::draw: what it emits and in which order.                           *)
(***************************************************************************)
\* Room::draw has just built depth_draws (Global::draw was called)
DrawStarts == phase = "draw" /\ phase' = "cleanup"
\* the instances the filter of Room::draw keeps
Drawable ==
    { id \in Range(object_instances) :
        /\ instances[id].visible
        /\ instances[id].depth >= -DrawDepthLimit /\ instances[id].depth <= DrawDepthLimit }

\* C33 as the spec states it: draw() emits exactly the visible instances
\* with a depth in [-16000, 16000], each once, by descending depth, and
\* instances of equal depth in the order they were inserted into the live
\* map (placements in the order of the room definition, then the instances
\* instance_create made: ascending id in this project)
C33_TiesInInsertionOrder ==
    [][ DrawStarts =>
          LET d == stack'[1].todo
          IN  /\ Range(d) = Drawable
              /\ Len(d) = Cardinality(Drawable)
              /\ \A i, j \in 1..Len(d) :
                    i < j => \/ instances[d[i]].depth > instances[d[j]].depth
                             \/ /\ instances[d[i]].depth = instances[d[j]].depth
                                /\ d[i] < d[j] ]_vars

(***************************************************************************)
(* room_goto_next and the room order.                                      *)
(***************************************************************************)
\* a handler's script has just called room_goto_next()
GotoNextCalled == calls' = calls + 1 /\ log'[Len(log')].k = "goto_next"
\* the position of room r in content.room_order (1-based)
OrderIndexOf(r) == CHOOSE i \in 1..Len(RoomOrder) : RoomOrder[i] = r

\* C34 as the spec states it: a room_goto_next() call does not abort, and
\* when a room follows the loaded room in the room order, that room is the
\* call's target
C34_GotoNextFollowsLoadedRoom ==
    [][ GotoNextCalled =>
          /\ ~panicked'
          /\ OrderIndexOf(room_def) < Len(RoomOrder) =>
                last_goto' = RoomOrder[OrderIndexOf(room_def) + 1] ]_vars

(***************************************************************************)
(* Destroy is dispatched once.                                             *)
(***************************************************************************)
\* this step runs the Destroy handler of instance id
DestroyRuns(id) ==
    /\ Len(log') = Len(log) + 1
    /\ log'[Len(log')].k = "run" /\ log'[Len(log')].ev = "Destroy" /\ log'[Len(log')].id = id
\* the instance_destroy calls of the current driver call that name id
DestroyCalls(id) == { i \in LogIdx : log[i].k = "destroy" /\ log[i].arg = id }

\* C39: the Destroy handler of an instance runs only in Room::cleanup, for an
\* id that has not been removed (and sent Destroy) since the room was loaded,
\* however many instance_destroy calls named it
C39_DestroyAtMostOnce ==
    [][ \A id \in DOMAIN instances :
          DestroyRuns(id) =>
            /\ log'[Len(log')].via = "cleanup"
            /\ id \notin hist_removed
            /\ id \in hist_removed' ]_vars

\* a cleanup has drained two instance_destroy calls for the same live
\* instance: its Destroy handler ran once, for the first of them
C39_Witness ==
    /\ FrameIs("cleanup") /\ Top.todo = << >>
    /\ \E id \in hist_removed :
         /\ Cardinality(DestroyCalls(id)) = 2
         /\ Cardinality({ i \in LogIdx : log[i].k = "run" /\ log[i].ev = "Destroy" /\ log[i].id = id }) = 1

(***************************************************************************)
(* Arithmetic never aborts; equality is symmetric.                         *)
(***************************************************************************)
ArithmeticOps == {"add", "sub", "mul", "div", "rem"}

\* C35 as the spec states it: a binary arithmetic operation returns a Value
\* or the InvalidOperands error, it never aborts the process
C35_ArithmeticNeverAborts ==
    last_op.fn \in ArithmeticOps =>
      \/ last_op.result.ok
      \/ last_op.result.error = "InvalidOperands"

\* C36 as the spec states it: a == b evaluates to the boolean b == a
\* evaluates to
C36_EqualitySymmetric ==
    last_op.fn = "eq" =>
      last_op.result.value = ValueBool(Eq(last_op.args[2], last_op.args[1]))

\* C37 as the spec states it: -x of a Float x is the Float of the negated
\* number and +x is x; -n of an Int n is Int(-n)
C37_UnaryKeepsNumber ==
    /\ (last_op.fn = "neg" /\ last_op.args[1].t = "Float") =>
          last_op.result.value = ValueFloat(-last_op.args[1].n)
    /\ (last_op.fn = "pos" /\ last_op.args[1].t = "Float") =>
          last_op.result.value = last_op.args[1]
    /\ (last_op.fn = "neg" /\ last_op.args[1].t = "Int") =>
          last_op.result.value = ValueInt(-last_op.args[1].n)

(***************************************************************************)
(* Ints that denote no object.                                             *)
(***************************************************************************)
\* C38 as the spec states it: `with (v)` on an Int v either resolves an
\* object or fails with InvalidObject, for negative v too; it never aborts
C38_UnknownIdNeverAborts ==
    last_op.fn = "with" =>
      \/ last_op.result.ok
      \/ last_op.result.error = "InvalidObject"

(***************************************************************************)
(* FontAsset::draw_text (state/global/fonts.rs): the line-breaking loop    *)
(* of draw_text_ext.  A string is the sequence of its codepoints.          *)
(***************************************************************************)
\* longest string drawn
MaxText == 4
\* largest wrap width w, in pixels
MaxWidth == 3
\* line ends the loop may push before the model stops following it
MaxLines == 6
\* the characters of the strings drawn: ' ' and 'a'
TextChars == {32, 97}
Texts == UNION { [1..k -> TextChars] : k \in 0..MaxText }
\* FontAsset.first: the codepoint of the font sprite's first image
FontFirsts == {32, 33}
\* sprite.size.x: the width of a character cell, in pixels
CellWidths == {1, 2}

\* w as usize / sprite.size.x as usize (w >= 0)
WrapChars(w, x) == w \div x
\* the flat_map over string.chars(): a character below `first` is dropped
RECURSIVE CharsOf(_, _)
CharsOf(string, first) ==
    IF string = << >> THEN << >>
    ELSE (IF Head(string) >= first
          THEN << [is_space |-> Head(string) = 32, index |-> Head(string) - first] >>
          ELSE << >>) \o CharsOf(Tail(string), first)

\* draw_text_ext(x, y, string, sep, w) with a font set: draw_text up to its loop
InitText ==
    /\ Unstarted /\ NoFile
    /\ \E string \in Texts, first \in FontFirsts : chars = CharsOf(string, first)
    /\ \E w \in 0..MaxWidth, x \in CellWidths : wrap_chars = WrapChars(w, x)
    /\ lines = << >>
    /\ line_index = 0
    /\ text_at = "loop"

\* what draw_text never changes
textFixed == << globalVars, roomVars, phase, stack, histVars, budgetVars, scriptVars,
                objectVars, loadVars, last_op, gmkVars, chars, wrap_chars >>

\* the head of `loop`: line_index += wrap_chars; the last line ends the loop
TextLoop ==
    /\ ~panicked /\ text_at = "loop" /\ Len(lines) < MaxLines
    /\ line_index' = line_index + wrap_chars
    /\ IF line_index + wrap_chars >= Len(chars)
       THEN lines' = Append(lines, Len(chars)) /\ text_at' = "draw"
       ELSE text_at' = "while" /\ UNCHANGED lines
    /\ UNCHANGED << textFixed, panicked >>

\* `while !chars[line_index - 1].0 { line_index -= 1 }`, one test: at
\* line_index 0 the usize subtraction overflows (a panic, or with wrapping
\* arithmetic an index past the end, which panics too); chars is 0-based there
TextWhile ==
    /\ ~panicked /\ text_at = "while"
    /\ IF line_index = 0
       THEN panicked' = TRUE /\ UNCHANGED << lines, line_index, text_at >>
       ELSE IF ~chars[line_index].is_space
       THEN line_index' = line_index - 1 /\ UNCHANGED << lines, text_at, panicked >>
       ELSE /\ lines' = Append(lines, line_index)
            /\ text_at' = "loop"
            /\ UNCHANGED << line_index, panicked >>
    /\ UNCHANGED textFixed

NextText == TextLoop \/ TextWhile

SpecText == InitText /\ [][NextText]_vars

\* C40 as the spec states it: the loop does not abort, and its line end
\* positions lie within the string and increase strictly (so it ends after at
\* most one line per character)
C40_LineEndsIncrease ==
    /\ text_at # "none" => ~panicked
    /\ \A i \in 1..Len(lines) :
         /\ lines[i] >= 0 /\ lines[i] <= Len(chars)
         /\ i > 1 => lines[i - 1] < lines[i]

====
